---------------------------- MODULE Spec2Model ----------------------------
(***************************************************************************)
(* Model of the legacy -> current migration engine:                        *)
(*   ValidationService   (transform + Joi validation, pure operators)      *)
(*   CurrentSystemApiClient (create / conflict / lookup / update protocol) *)
(*   MigrationService    (processRoom traversal, result aggregation)       *)
(*   ParallelProcessor   (p-limit admission of room tasks)                 *)
(* and of the target system the client talks to (one target event).        *)
(***************************************************************************)
EXTENDS Naturals, Integers, Sequences, FiniteSets, TLC

(***************************************************************************)
(* Bounds of the model.                                                    *)
(***************************************************************************)
MaxRuns == 2
MaxFaults == 1
MaxConcurrency == 2

(***************************************************************************)
(* JavaScript values.  A value is a tagged record so that typeof, null and *)
(* undefined stay distinguishable: t is "str", "num", "bool", "null" or     *)
(* "undef".                                                                *)
(***************************************************************************)
Str(s) == [t |-> "str", s |-> s, n |-> 0]
Num(k) == [t |-> "num", s |-> "", n |-> k]
Null == [t |-> "null", s |-> "", n |-> 0]
Undef == [t |-> "undef", s |-> "", n |-> 0]
Bool(b) == [t |-> "bool", s |-> "", n |-> IF b THEN 1 ELSE 0]

\* JS truthiness: undefined, null, "" and 0 are falsy.
Truthy(v) == \/ (v.t = "str" /\ v.s # "")
             \/ (v.t = "num" /\ v.n # 0)
             \/ (v.t = "bool" /\ v.n = 1)

\* rec.field in JS: undefined when the key is absent.
Get(rec, f) == IF f \in DOMAIN rec THEN rec[f] ELSE Undef

\* a || b || ... || z : the first truthy operand, else the last operand.
RECURSIVE OrChain(_)
OrChain(vs) == IF Len(vs) = 1 \/ Truthy(Head(vs)) THEN Head(vs) ELSE OrChain(Tail(vs))

\* rec.f1 || rec.f2 || ... || dflt
FirstOf(rec, fs, dflt) == OrChain([i \in 1..(Len(fs) + 1) |->
                              IF i <= Len(fs) THEN Get(rec, fs[i]) ELSE dflt])

\* The keys of an object literal / request body.
Keys(obj) == DOMAIN obj

(***************************************************************************)
(* current-dtos.json: the entity types the engine validates against.       *)
(* types holds the "type" rule of each field that has one, maxLength the   *)
(* truthy maxLength rules.  ("format", "required" and a minLength of 0 are *)
(* never read by applyValidationRules.)                                    *)
(***************************************************************************)
CurrentDTOs ==
  [room |->
     [create |-> [required |-> {"name", "displayName", "eventLocationId"},
                  optional |-> {},
                  types |-> [name |-> "string", displayName |-> "string",
                             eventLocationId |-> "integer"],
                  maxLength |-> [name |-> 100, displayName |-> 250]],
      update |-> [required |-> {"id"},
                  optional |-> {"name", "displayName", "eventLocationId"},
                  types |-> [id |-> "string", name |-> "string",
                             displayName |-> "string", eventLocationId |-> "number"],
                  maxLength |-> <<>>]],
   session |->
     [create |-> [required |-> {"eventId", "roomId", "sourceSystemId", "name",
                                "startsAt", "endsAt"},
                  optional |-> {"sessionTypeId", "description"},
                  types |-> [eventId |-> "integer", roomId |-> "string",
                             sessionTypeId |-> "string", sourceSystemId |-> "string",
                             name |-> "string", description |-> "string",
                             startsAt |-> "string", endsAt |-> "string"],
                  maxLength |-> [sourceSystemId |-> 100, name |-> 350]],
      update |-> [required |-> {"id"},
                  optional |-> {"name", "description", "startsAt", "endsAt",
                                "sessionTags", "sessionTracks"},
                  types |-> [id |-> "string", name |-> "string",
                             description |-> "string", startsAt |-> "string",
                             endsAt |-> "string", sessionTags |-> "array",
                             sessionTracks |-> "array"],
                  maxLength |-> <<>>]],
   subSession |->
     [create |-> [required |-> {"sessionId", "sourceSystemId", "name", "startsAt",
                                "endsAt", "order"},
                  optional |-> {"description", "subSessionTags"},
                  types |-> [sessionId |-> "string", sourceSystemId |-> "string",
                             name |-> "string", description |-> "string",
                             startsAt |-> "string", endsAt |-> "string",
                             order |-> "number", subSessionTags |-> "array"],
                  maxLength |-> <<>>],
      update |-> [required |-> {"id"},
                  optional |-> {"name", "description", "startsAt", "endsAt",
                                "order", "subSessionTags"},
                  types |-> [id |-> "string", name |-> "string",
                             description |-> "string", startsAt |-> "string",
                             endsAt |-> "string", order |-> "number",
                             subSessionTags |-> "array"],
                  maxLength |-> <<>>]],
   user |->
     [create |-> [required |-> {"email", "userName", "firstName", "lastName", "eventId"},
                  optional |-> {"middleName", "preferredName", "prefix", "suffix",
                                "credentials", "title", "organization", "phoneNumber",
                                "website", "hasCheckedInSrr", "isVip", "hasLoggedIn",
                                "disableDisclosureDisplay", "city", "state", "country",
                                "isSystemUser", "userTags", "createUserSocialTagDto"},
                  types |-> [email |-> "string", userName |-> "string",
                             firstName |-> "string", lastName |-> "string",
                             phoneNumber |-> "string", title |-> "string",
                             organization |-> "string", eventId |-> "number"],
                  maxLength |-> <<>>]]]

\* The fields the target schema lists as updatable for an entity type.
UpdatableFields(entityType) == CurrentDTOs[entityType].update.optional

(***************************************************************************)
(* ValidationService.buildJoiSchema / applyValidationRules / Joi.validate. *)
(***************************************************************************)
\* A field with a "type" (or length) rule is rebuilt as Joi.string()/Joi.number(),
\* which drops the .required() of the base schema; only untyped required fields
\* stay required.
JoiRequired(dto, f) == f \in dto.required /\ f \notin DOMAIN dto.types
                         /\ f \notin DOMAIN dto.maxLength

\* null is allowed for optional fields (.optional().allow(null)).
JoiAllowsNull(dto, f) == f \in dto.optional

\* Does a present, non-null value satisfy the typed schema of field f?
JoiTypeOk(dto, f, v) ==
  IF f \notin DOMAIN dto.types THEN
     (f \in DOMAIN dto.maxLength) => (v.t = "str" /\ v.s # "" /\ Len(v.s) <= dto.maxLength[f])
  ELSE IF dto.types[f] \in {"number", "integer"} THEN v.t = "num"
  ELSE IF dto.types[f] \in {"array", "object"} THEN FALSE
  ELSE /\ v.t = "str"
       /\ v.s # ""
       /\ (f \in DOMAIN dto.maxLength => Len(v.s) <= dto.maxLength[f])

\* The set of fields Joi reports (abortEarly: false): unknown keys, missing
\* required fields, nulls where null is not allowed, type violations.
JoiViolations(dto, data) ==
  LET schemaKeys == dto.required \cup dto.optional
  IN  {f \in Keys(data) : f \notin schemaKeys /\ data[f].t # "undef"}
      \cup {f \in schemaKeys : JoiRequired(dto, f) /\ Get(data, f).t = "undef"}
      \cup {f \in schemaKeys \cap Keys(data) :
              \/ (data[f].t = "null" /\ ~JoiAllowsNull(dto, f))
              \/ (data[f].t \in {"str", "num"} /\ ~JoiTypeOk(dto, f, data[f]))}

\* validateCurrentSystemData throws iff there is no DTO or Joi reports an error.
validateCurrentSystemData(entityType, operation, data) ==
  /\ entityType \in DOMAIN CurrentDTOs
  /\ operation \in DOMAIN CurrentDTOs[entityType]
  /\ JoiViolations(CurrentDTOs[entityType][operation], data) = {}

(***************************************************************************)
(* ValidationService: the transform functions.  Each returns                *)
(* [ok |-> TRUE, data |-> payload] or [ok |-> FALSE, ...] when it throws.   *)
(***************************************************************************)
\* new Date(s).toISOString() for the date strings of the source data; every
\* other string makes new Date(s) an Invalid Date.
IsoTable == [x \in {"2025-03-01 09:00", "2025-03-01 10:00"} |->
               IF x = "2025-03-01 09:00" THEN "2025-03-01T09:00:00.000Z"
                                         ELSE "2025-03-01T10:00:00.000Z"]

transformDateTime(dateTimeString) ==
  IF ~Truthy(dateTimeString) THEN Null
  ELSE IF dateTimeString.t = "str" /\ dateTimeString.s \in DOMAIN IsoTable
       THEN Str(IsoTable[dateTimeString.s])
  ELSE Null

Thrown == [ok |-> FALSE, data |-> <<>>]
Returned(payload) == [ok |-> TRUE, data |-> payload]

\* An object literal extended by one optional property.
WithIf(cond, k, v) == IF cond THEN (k :> v) ELSE <<>>

transformLegacyRoom(legacyRoom, targetEventId, eventLocationId) ==
  LET roomName == FirstOf(legacyRoom, <<"RoomName", "name", "roomName", "Name">>,
                          Get(legacyRoom, "DisplayName"))
      finalEventLocationId == OrChain(<<eventLocationId,
                                        Get(legacyRoom, "EventLocationId"),
                                        targetEventId>>)
      description == FirstOf(legacyRoom, <<"description">>, Get(legacyRoom, "Description"))
      legacyId == FirstOf(legacyRoom, <<"id", "Id">>, Get(legacyRoom, "RoomId"))
      transformedRoom ==
          [eventLocationId |-> finalEventLocationId,
           name |-> roomName,
           displayName |-> roomName]
          @@ WithIf(Truthy(description), "description", description)
  IN  IF ~Truthy(roomName) THEN Thrown
      ELSE IF ~validateCurrentSystemData("room", "create", transformedRoom) THEN Thrown
      ELSE Returned(transformedRoom @@ [eventId |-> targetEventId, legacyId |-> legacyId])

\* `legacy-${Date.now()}`
LegacyStamp(now) == Str("legacy-" \o ToString(now))

transformLegacySession(legacySession, roomId, targetEventId, now) ==
  LET transformedSession ==
        [eventId |-> targetEventId,
         roomId |-> roomId,
         sourceSystemId |-> FirstOf(legacySession,
                               <<"ClientSessionId", "clientSessionId", "SessionId",
                                 "sessionId", "id">>, LegacyStamp(now)),
         name |-> FirstOf(legacySession, <<"SessionName", "sessionName", "title">>,
                          Str("Untitled Session")),
         description |-> FirstOf(legacySession, <<"Description", "description">>, Null),
         startsAt |-> transformDateTime(FirstOf(legacySession,
                               <<"SessionStart", "sessionStart">>,
                               Get(legacySession, "startTime"))),
         endsAt |-> transformDateTime(FirstOf(legacySession,
                               <<"SessionEnd", "sessionEnd">>,
                               Get(legacySession, "endTime")))]
  IN  IF validateCurrentSystemData("session", "create", transformedSession)
      THEN Returned(transformedSession) ELSE Thrown

transformLegacySubSession(legacySubSession, sessionId, targetEventId, now) ==
  LET transformedSubSession ==
        [sessionId |-> sessionId,
         sourceSystemId |-> FirstOf(legacySubSession,
                               <<"ClientSubSessionId", "clientSubSessionId",
                                 "SubSessionId", "subSessionId", "id">>, LegacyStamp(now)),
         name |-> FirstOf(legacySubSession, <<"subSessionName", "title">>,
                          Str("Untitled SubSession")),
         description |-> FirstOf(legacySubSession, <<"description">>, Null),
         startsAt |-> transformDateTime(Get(legacySubSession, "startTime")),
         endsAt |-> transformDateTime(Get(legacySubSession, "endTime")),
         order |-> FirstOf(legacySubSession, <<"order", "subSessionOrder">>, Num(1))]
  IN  IF validateCurrentSystemData("subSession", "create", transformedSubSession)
      THEN Returned(transformedSubSession) ELSE Thrown

\* tags / metadata are null here: the source users carry no custom fields.
transformLegacyUser(legacyUser, targetEventId) ==
  LET transformedUser ==
        [eventId |-> targetEventId,
         email |-> Get(legacyUser, "email"),
         firstName |-> Get(legacyUser, "firstName"),
         lastName |-> Get(legacyUser, "lastName"),
         company |-> FirstOf(legacyUser, <<"company">>, Null),
         jobTitle |-> FirstOf(legacyUser, <<"title">>, Null),
         phoneNumber |-> FirstOf(legacyUser, <<"phone">>, Null),
         tags |-> Null,
         metadata |-> Null,
         legacyId |-> Get(legacyUser, "id")]
  IN  IF validateCurrentSystemData("user", "create", transformedUser)
      THEN Returned(transformedUser) ELSE Thrown

\* There is no "moderator" entry in current-dtos.json, so validation throws.
transformLegacyModerator(legacyUser, userId, roomId, targetEventId) ==
  LET transformedModerator ==
        [eventId |-> targetEventId, userId |-> userId, roomId |-> roomId,
         role |-> Str("moderator"), legacyId |-> Get(legacyUser, "id")]
  IN  IF validateCurrentSystemData("moderator", "create", transformedModerator)
      THEN Returned(transformedModerator) ELSE Thrown

\* Called by processFiles with the default fileType 'session': the payload is
\* validated as "sessionFile", for which current-dtos.json has no entry.
transformLegacyFile(legacyFile, associatedId, targetEventId) ==
  LET transformedFile ==
        [originalFileName |-> Get(legacyFile, "fileName"),
         fileSizeBytes |-> Get(legacyFile, "fileSize"),
         description |-> FirstOf(legacyFile, <<"description">>, Null),
         legacyId |-> Get(legacyFile, "id"),
         sessionId |-> associatedId]
  IN  IF validateCurrentSystemData("sessionFile", "create", transformedFile)
      THEN Returned(transformedFile) ELSE Thrown

(***************************************************************************)
(* Source (legacy) data sets.  A source room carries the legacy room       *)
(* record and what the legacy API returns for it: sessions (each with its  *)
(* SubSessions), users, files.  Source data is immutable during the runs.  *)
(***************************************************************************)
T9 == Str("2025-03-01 09:00")
T10 == Str("2025-03-01 10:00")

SubB(id) == [ClientSubSessionId |-> Str(id), subSessionName |-> Str("Talk " \o id),
             startTime |-> T9, endTime |-> T10]
SessS(id, subs) == [ClientSessionId |-> Str(id), SessionName |-> Str("Session " \o id),
                    SessionStart |-> T9, SessionEnd |-> T10, SubSessions |-> subs]
UserU(mail) == [email |-> Str(mail), firstName |-> Str("Ann"), lastName |-> Str("Lee"),
                id |-> Str("U-" \o mail), isModerator |-> Bool(TRUE)]
FileF(id) == [FileId |-> Str(id), FileName |-> Str(id \o ".pdf")]
RoomR(name, rid, sessions, users) ==
  [room |-> [RoomName |-> Str(name), RoomId |-> Str(rid)],
   sessions |-> sessions, users |-> users, files |-> <<>>]

\* One room, two sessions, the first with two sub-sessions, two users, three
\* files of which the second has no file id.
DataMainHall ==
  <<[RoomR("Main Hall", "10",
          <<SessS("S1", <<SubB("B1"),
                          SubB("B2") @@ [description |-> Str("Second part"),
                                         order |-> Num(2)]>>),
            SessS("S2", <<>>)>>,
          <<UserU("ann@x.org"), UserU("bob@x.org")>>)
       EXCEPT !.files = <<FileF("F1"), [FileName |-> Str("notes.pdf")], FileF("F3")>>]>>

\* Two rooms whose sessions carry the same client identifier.
DataSharedIds ==
  <<RoomR("Main Hall", "10", <<SessS("S1", <<>>)>>, <<>>),
    RoomR("Side Room", "11", <<SessS("S1", <<SubB("B1")>>)>>, <<>>)>>

\* A session and its sub-session without any identifier field.
DataNoIds ==
  <<RoomR("Main Hall", "10",
          <<[SessionName |-> Str("Keynote"), SessionStart |-> T9, SessionEnd |-> T10,
             SubSessions |-> <<[subSessionName |-> Str("Part"), startTime |-> T9,
                                endTime |-> T10]>>]>>,
          <<>>)>>

\* A room that carries a Description (not a field of room.create), and a plain
\* room with a session whose start time does not parse between two well-formed
\* sessions.
DataRoomDescription ==
  <<[room |-> [RoomName |-> Str("Annex"), RoomId |-> Str("12"),
               Description |-> Str("Second floor")],
     sessions |-> <<SessS("S7", <<>>)>>, users |-> <<>>, files |-> <<>>],
    RoomR("Main Hall", "10",
          <<SessS("S1", <<>>),
            [ClientSessionId |-> Str("S2"), SessionName |-> Str("Broken"),
             SessionStart |-> Str("soon"), SessionEnd |-> T10],
            SessS("S3", <<>>)>>,
          <<>>)>>

\* One room with two sessions of three sub-sessions each.
DataTwoByThree ==
  <<RoomR("Main Hall", "10",
          <<SessS("S1", <<SubB("B1"), SubB("B2"), SubB("B3")>>),
            SessS("S2", <<SubB("B4"), SubB("B5"), SubB("B6")>>)>>,
          <<>>)>>

\* A room whose name holds the digits 409, with one session.
DataRoom409 == <<RoomR("Room 409", "13", <<SessS("S9", <<>>)>>, <<>>)>>

DataSets == {DataMainHall, DataSharedIds, DataNoIds, DataRoomDescription, DataTwoByThree,
             DataRoom409}

\* session.SubSessions, else session.subSessions, when non-empty.
SubSessionsOf(session) ==
  IF "SubSessions" \in DOMAIN session /\ Len(session.SubSessions) > 0
     THEN session.SubSessions
  ELSE IF "subSessions" \in DOMAIN session /\ Len(session.subSessions) > 0
     THEN session.subSessions
  ELSE <<>>

\* The CLI's targetEventId and the id of the target event's first location.
TargetEventId == Num(46)
EventLocations == <<[id |-> Num(500)]>>

(***************************************************************************)
(* State.                                                                  *)
(***************************************************************************)
VARIABLES
  src,        \* the legacy data set of the event (immutable)
  config,     \* the service's maxConcurrentRooms and the options of the run
  run,        \* number of the current executeMigration call
  phase,      \* "idle" | "rooms" | "done" : position of executeMigration
  now,        \* Date.now()
  faults,     \* target requests that failed for a reason other than a conflict
  tRooms,     \* target system: rooms of the target event
  tSessions,  \* target system: sessions of the target event
  tSubSessions, \* target system: sub-sessions of the target event
  task,       \* per source room: the processRoom invocation
  log,        \* per source room: the target requests it sent in this run
  result,     \* the MigrationResult of the current run
  prev,       \* target entity counts when the previous run ended
  pp,         \* a ParallelProcessor and its current processRooms / processItems call
  tEvent,     \* target system: the target event and its event locations
  exit,       \* exit code of the tool's process for the current run (-1: not exited)
  mr,         \* a MigrationResult object on its own and the calls made on it
  vc,         \* a ConfigManager.validateConfig call: its argument and its outcome
  rt          \* a Utils.retry call: its arguments, the operation's behaviour, its progress

vars == <<src, config, run, phase, now, faults, tRooms, tSessions, tSubSessions,
          task, log, result, prev, pp, tEvent, exit, mr, vc, rt>>

RoomIdx == 1..Len(src)

(***************************************************************************)
(* The target system (event API).  Identifiers are assigned by the target; *)
(* the model derives them from the key the target keeps unique (room name, *)
(* sourceSystemId), so equal keys mean the same entity.                    *)
(***************************************************************************)
NewRoomId(name) == "uuid-room-" \o name
NewSessionId(ssid) == "uuid-session-" \o ssid
NewSubSessionId(ssid) == "uuid-subsession-" \o ssid

\* POST /Events/{eventId}/Rooms answers 409 "... already exists" for a taken name.
RoomConflict(name) == \E x \in tRooms : x.name = name
\* POST .../Sessions and .../SubSessions answer 409 "SourceSystemId ... already in
\* use" for a sourceSystemId taken within the event.
SessionConflict(ssid) == \E x \in tSessions : x.sourceSystemId = ssid
SubSessionConflict(ssid) == \E x \in tSubSessions : x.sourceSystemId = ssid

\* What a request may come back with: the target's answer, or, while the fault
\* budget lasts, a failure (network error, 5xx, non-conflict 4xx).
Answers(conflict) ==
  (IF conflict THEN {"409"} ELSE {"ok"}) \cup (IF faults < MaxFaults THEN {"err"} ELSE {})

Spend(a) == faults' = IF a = "err" THEN faults + 1 ELSE faults

\* A create request for a child: a parent identifier the target never handed out
\* (it is not even a uuid) is rejected with 400, unless the target reports the
\* conflict first.
ChildAnswers(conflict, parentKnown) ==
  IF parentKnown THEN Answers(conflict)
  ELSE {"400"} \cup (IF conflict THEN {"409"} ELSE {})
               \cup (IF faults < MaxFaults THEN {"err"} ELSE {})

(***************************************************************************)
(* CurrentSystemApiClient helpers.                                         *)
(***************************************************************************)
\* existingRooms.find(room => room.name === roomData.name)
FindRoomByName(rooms, name) == {x \in rooms : x.name = name}

\* sessions.find(session => session.sourceSystemId === sourceSystemId)
getSessionBySourceSystemId(sessions, sourceSystemId) ==
  {x \in sessions : x.sourceSystemId = sourceSystemId}

\* subSessions.find(subSession => subSession.sourceSystemId === sourceSystemId)
getSubSessionBySourceSystemId(subSessions, sourceSystemId) ==
  {x \in subSessions : x.sourceSystemId = sourceSystemId}

\* `existing-${roomData.name.replace(/\s+/g, '-').toLowerCase()}`
RoomSlug == [x \in {"Main Hall", "Side Room", "Annex", "Room 409"} |->
               CASE x = "Main Hall" -> "main-hall"
                 [] x = "Side Room" -> "side-room"
                 [] x = "Room 409" -> "room-409"
                 [] OTHER -> "annex"]
MockRoomId(name) == "existing-" \o RoomSlug[name]
\* `existing-${sessionData.sourceSystemId}`
MockId(ssid) == "existing-" \o ssid

\* updateSession sends sessionData as it is.
updateSessionBody(sessionData) == sessionData

\* updateSubSession without the filter: the create payload is sent back.
updateSubSessionBodyUnfiltered(subSessionData) == subSessionData

\* updateSubSession: the five listed fields, undefined ones removed.
updateSubSessionBody(subSessionData) ==
  LET updatePayload == [k \in {"name", "description", "startsAt", "endsAt", "order"} |->
                          Get(subSessionData, k)]
  IN  [k \in {f \in DOMAIN updatePayload : updatePayload[f].t # "undef"} |->
         updatePayload[k]]

\* createOrUpdateSession checking for an existing session before it creates.
createOrUpdateSessionEntryLookup == "session_lookup"

\* The first request of createOrUpdateSession / createOrUpdateSubSession.
createOrUpdateSessionEntry == "session_post"
createOrUpdateSubSessionEntry == "sub_check"

(***************************************************************************)
(* Request log entries.  ent names the source entity an upsert is for.     *)
(***************************************************************************)
Ent(kind, i, j) == [kind |-> kind, i |-> i, j |-> j]
Req(m, ep, ent, key, id, parent, body, st) ==
  [m |-> m, ep |-> ep, ent |-> ent, key |-> key, id |-> id, parent |-> parent,
   body |-> body, st |-> st]

Sent(r, q) == log' = [log EXCEPT ![r] = Append(@, q)]

(***************************************************************************)
(* processRoom: one task per source room.                                  *)
(***************************************************************************)
\* An entry of an errors list: the context names the step and the entity.
Err(context, i) == [context |-> context, i |-> i]

NewRoomResult == [success |-> TRUE, errors |-> <<>>, sessionsCreated |-> 0,
                  filesUploaded |-> 0, usersProcessed |-> 0]

\* downloaded / uploaded: the files of the room for which legacyClient.downloadFile
\* and fileService.uploadFile have been called.
NewTask == [pc |-> "queued", roomId |-> "", si |-> 1, bi |-> 1, ui |-> 1, fi |-> 1,
            cur |-> <<>>, sessionId |-> "", match |-> "", res |-> NewRoomResult,
            downloaded |-> {}, uploaded |-> {}]

Active(r) == task[r].pc \notin {"queued", "done", "skipped"}
activeTasks == Cardinality({r \in RoomIdx : Active(r)})

TargetCount == Cardinality(tRooms) + Cardinality(tSessions) + Cardinality(tSubSessions)

\* new ParallelProcessor(concurrency, logger): the statistics of the constructor;
\* no call is under way (n = 0 items).
NewParallelProcessor ==
  [status |-> "idle", method |-> "", n |-> 0, concurrency |-> 1, st |-> <<>>,
   started |-> <<>>, results |-> <<>>,
   statistics |-> [totalTasks |-> 0, completedTasks |-> 0, failedTasks |-> 0,
                   activeTasks |-> 0, maxActiveTasks |-> 0]]

\* new MigrationResult(): success is false, no error, no warning, endTime null.
\* threw records that a call on the object threw (no such method).
NewMigrationResultObject ==
  [success |-> Bool(FALSE), errors |-> <<>>, warnings |-> <<>>, roomsProcessed |-> 0,
   endTime |-> Null, threw |-> FALSE]

\* No validateConfig call and no retry call is under way.
NoValidateConfigCall == [config |-> <<>>, status |-> "idle", value |-> <<>>]
NoRetryCall == [status |-> "idle", maxRetries |-> 0, baseDelay |-> 0, attempt |-> 0,
                outcomes |-> <<>>, lastError |-> Undef, value |-> Undef, slept |-> <<>>]

\* maxConcurrentRooms is config.migration.maxConcurrentRooms, loaded from the
\* environment and given to the ParallelProcessor when the service is
\* constructed; maxConcurrent (--max-concurrent, 0: not given), migrateAllRooms
\* and dryRun are the options of a run.  migrateSingleRoom never uses the
\* limiter, so one value of maxConcurrentRooms stands for all in that mode.
Configs ==
  {c \in [maxConcurrentRooms : 1..MaxConcurrency, maxConcurrent : 0..MaxConcurrency,
          migrateAllRooms : BOOLEAN, dryRun : BOOLEAN] :
     ~c.migrateAllRooms => c.maxConcurrentRooms = 1}

\* What the target holds for the target event id: the event with its event
\* locations, the event without any location, or no such event.
TargetEvents ==
  {[found |-> TRUE, eventLocations |-> EventLocations],
   [found |-> TRUE, eventLocations |-> <<>>],
   [found |-> FALSE, eventLocations |-> <<>>]}

Init ==
  /\ src \in DataSets
  /\ config \in {c \in Configs : c.maxConcurrent = 0}
  /\ run = 0
  /\ phase = "idle"
  /\ now = 0
  /\ faults = 0
  /\ tRooms = {} /\ tSessions = {} /\ tSubSessions = {}
  /\ task = [r \in 1..Len(src) |-> NewTask]
  /\ log = [r \in 1..Len(src) |-> <<>>]
  /\ result = [roomsProcessed |-> 0, sessionsCreated |-> 0, usersProcessed |-> 0,
               filesUploaded |-> 0, errors |-> <<>>, success |-> FALSE,
               endTime |-> Null]
  /\ prev = 0
  /\ pp = NewParallelProcessor
  /\ tEvent \in TargetEvents
  /\ exit = -1
  /\ mr = NewMigrationResultObject
  /\ vc = NoValidateConfigCall
  /\ rt = NoRetryCall

\* The catch block of processRoom.
FailRoom(t) == [t EXCEPT !.pc = "done", !.res.success = FALSE,
                         !.res.errors = Append(@, Err("Room processing", 0))]

\* processRoom up to its first target request: transformLegacyRoom.
BeginRoom(r) ==
  LET eventLocations == tEvent.eventLocations
      eventLocationId == IF Len(eventLocations) > 0
                         THEN OrChain(<<eventLocations[1].id, TargetEventId>>)
                         ELSE TargetEventId
      tr == transformLegacyRoom(src[r].room, TargetEventId, eventLocationId)
  IN  IF tr.ok THEN [NewTask EXCEPT !.pc = "room_post", !.cur = tr.data]
      ELSE FailRoom(NewTask)

\* A processRoom that goes from the room upsert straight to the users.
RoomReturnedUsersNext(t, id) == [t EXCEPT !.roomId = id, !.pc = "users"]

\* createOrUpdateRoom returned createdRoom: go on to the sessions.
RoomReturned(t, id) == [t EXCEPT !.roomId = id, !.pc = "sessions"]

\* createOrUpdateSession returned createdSession: result.created++, sub-sessions next.
SessionReturned(t, id) ==
  [t EXCEPT !.sessionId = id, !.res.sessionsCreated = @ + 1, !.bi = 1, !.pc = "subs"]

\* A session loop whose catch block leaves the loop.
SessionFailedLeavesLoop(t) ==
  [t EXCEPT !.res.errors = Append(@, Err("Session processing", t.si)), !.pc = "users"]
\* The catch block of the session loop body.
SessionFailed(t) ==
  [t EXCEPT !.res.errors = Append(@, Err("Session processing", t.si)), !.si = @ + 1,
            !.pc = "sessions"]

\* The sub-session loop moves on (success, mock, or an error that is only logged).
SubSessionOver(t) == [t EXCEPT !.bi = @ + 1, !.pc = "subs"]

Name(t) == t.cur.name.s
Ssid(t) == t.cur.sourceSystemId.s

(***************************************************************************)
(* executeMigration.                                                       *)
(***************************************************************************)
\* new MigrationResult()
NewMigrationResult ==
  [roomsProcessed |-> 0, sessionsCreated |-> 0, usersProcessed |-> 0,
   filesUploaded |-> 0, errors |-> <<>>, success |-> FALSE, endTime |-> Null]

\* A check that only asks whether the event exists.
eventCheckWithoutLocations(ev) == IF ~ev.found THEN "not found" ELSE "ok"
\* getEvent and getEventLocations at the head of migrateAllRooms and
\* migrateSingleRoom: the error thrown, or "ok".
eventCheck(ev) ==
  IF ~ev.found THEN "not found"
  ELSE IF Len(ev.eventLocations) = 0 THEN "has no event locations"
  ELSE "ok"

\* A migration that never takes the dry-run branch.
dryRunIgnored(cfg) == FALSE
\* if (dryRun) { ... return; }
dryRunBranch(cfg) == cfg.dryRun

\* MigrationApplication.executeMigration: process.exit(result.success ? 0 : 1)
ExitCode(res) == IF res.success THEN 0 ELSE 1

\* A catch block of executeMigration that records nothing.
executeMigrationCatchSilent(res, t) == [res EXCEPT !.endTime = Num(t)]

\* The catch block of executeMigration: one more error entry, endTime, and
\* success = false.
executeMigrationCatch(res, t) ==
  [res EXCEPT !.errors = Append(@, Err("Migration execution", 0)),
              !.endTime = Num(t),
              !.success = FALSE]

\* The tool is started: a new process and a new executeMigration call with a
\* new MigrationResult.  A missing event or event location is thrown, recorded by
\* the mode's catch block and by executeMigration's, and the result is returned
\* with success = false; a dry run sets roomsProcessed and returns.  Otherwise
\* migrateSingleRoom calls processRoom for the named room and migrateAllRooms
\* queues every room on the limiter.
StartRun ==
  LET modeContext == IF config.migrateAllRooms THEN "All rooms migration"
                     ELSE "Single room migration"
      aborted == executeMigrationCatch(
                   [NewMigrationResult EXCEPT !.errors = <<Err(modeContext, 0)>>], now + 1)
      dry == [NewMigrationResult EXCEPT
                !.roomsProcessed = IF config.migrateAllRooms THEN Len(src) ELSE 1,
                !.success = TRUE,
                !.endTime = Num(now + 1)]
      over == eventCheck(tEvent) # "ok" \/ dryRunBranch(config)
  IN
  /\ phase \in {"idle", "done"}
  /\ run < MaxRuns
  /\ run' = run + 1
  /\ now' = now + 1
  /\ prev' = TargetCount
  /\ log' = [r \in RoomIdx |-> <<>>]
  /\ phase' = IF over THEN "done" ELSE "rooms"
  /\ task' = [r \in RoomIdx |->
                IF over THEN [NewTask EXCEPT !.pc = "skipped"]
                ELSE IF config.migrateAllRooms THEN NewTask
                ELSE IF r = 1 THEN BeginRoom(r)
                ELSE [NewTask EXCEPT !.pc = "skipped"]]
  /\ result' = IF eventCheck(tEvent) # "ok" THEN aborted
               ELSE IF dryRunBranch(config) THEN dry
               ELSE NewMigrationResult
  /\ exit' = IF eventCheck(tEvent) # "ok" THEN ExitCode(aborted)
             ELSE IF dryRunBranch(config) THEN ExitCode(dry)
             ELSE -1
  /\ UNCHANGED <<pp, mr, vc, rt, tEvent, src, config, faults, tRooms, tSessions, tSubSessions>>

\* ParallelProcessor.processRooms: p-limit starts the queued tasks in order while
\* fewer than `concurrency` are running.
Admit(r) ==
  /\ phase = "rooms"
  /\ task[r].pc = "queued"
  /\ \A q \in RoomIdx : q < r => task[q].pc # "queued"
  /\ activeTasks < config.maxConcurrentRooms
  /\ task' = [task EXCEPT ![r] = BeginRoom(r)]
  /\ UNCHANGED <<pp, mr, vc, rt, tEvent, exit, src, config, run, phase, now, faults, tRooms, tSessions,
                 tSubSessions, log, result, prev>>

(***************************************************************************)
(* createOrUpdateRoom / createRoom.                                        *)
(***************************************************************************)
\* createOrUpdateRoom: error.message.includes('409'), on the message
\* `Failed to create room "${roomData.name}": ${error.message}` thrown by
\* createRoom: true for a 409 answer, and for any failure when the room name
\* itself holds 409.
messageIncludes409(name, a) == a \in {"409", "409other"} \/ name \in {"Room 409"}

\* createRoom: POST rooms.  A conflict is answered 409; its message holds
\* "already exists" ("409") or not ("409other").  Any other failure ("err": no
\* answer, a 5xx, or a 4xx other than 409) and "409other" are rethrown by
\* createRoom, and createOrUpdateRoom looks the room up when it finds 409 in the
\* message.
PostRoom(r) ==
  LET t == task[r] IN
  /\ t.pc = "room_post"
  /\ \E a \in Answers(RoomConflict(Name(t)))
                \cup (IF RoomConflict(Name(t)) THEN {"409other"} ELSE {}) :
       /\ Spend(a)
       /\ Sent(r, Req("POST", "rooms", Ent("room", 0, 0), Name(t), "", "",
                      Keys(t.cur), a))
       /\ tRooms' = IF a = "ok"
                    THEN tRooms \cup {[id |-> NewRoomId(Name(t)), name |-> Name(t)]}
                    ELSE tRooms
       /\ task' = [task EXCEPT ![r] =
                     CASE a = "ok" -> RoomReturned(t, NewRoomId(Name(t)))
                       [] a = "409" -> [t EXCEPT !.pc = "room_lookup"]
                       [] messageIncludes409(Name(t), a) ->
                            [t EXCEPT !.pc = "room_lookup_outer"]
                       [] OTHER -> FailRoom(t)]
  /\ UNCHANGED <<pp, mr, vc, rt, tEvent, exit, src, config, run, phase, now, tSessions, tSubSessions, result, prev>>

\* createRoom, 409 "already exists": getRooms and find by name; the existing
\* room, else (not found, or getRooms failed) a mock room object.
LookupRoom(r) ==
  LET t == task[r] IN
  /\ t.pc = "room_lookup"
  /\ \E a \in Answers(FALSE) :
       LET found == IF a = "ok" THEN FindRoomByName(tRooms, Name(t)) ELSE {} IN
       /\ Spend(a)
       /\ Sent(r, Req("GET", "rooms", Ent("room", 0, 0), Name(t), "", "", {}, a))
       /\ task' = [task EXCEPT ![r] =
                     IF found # {} THEN RoomReturned(t, (CHOOSE x \in found : TRUE).id)
                     ELSE RoomReturned(t, MockRoomId(Name(t)))]
  /\ UNCHANGED <<pp, mr, vc, rt, tEvent, exit, src, config, run, phase, now, tRooms, tSessions, tSubSessions,
                 result, prev>>

\* createOrUpdateRoom, message includes "409": getRooms (a failure propagates to
\* processRoom) and find by name; not found: the create error is rethrown.
LookupRoomOuter(r) ==
  LET t == task[r] IN
  /\ t.pc = "room_lookup_outer"
  /\ \E a \in Answers(FALSE) :
       LET found == IF a = "ok" THEN FindRoomByName(tRooms, Name(t)) ELSE {} IN
       /\ Spend(a)
       /\ Sent(r, Req("GET", "rooms", Ent("room", 0, 0), Name(t), "", "", {}, a))
       /\ task' = [task EXCEPT ![r] =
                     IF found # {} THEN RoomReturned(t, (CHOOSE x \in found : TRUE).id)
                     ELSE FailRoom(t)]
  /\ UNCHANGED <<pp, mr, vc, rt, tEvent, exit, src, config, run, phase, now, tRooms, tSessions, tSubSessions,
                 result, prev>>

(***************************************************************************)
(* processSessions / createOrUpdateSession.                                *)
(***************************************************************************)
\* The loop head: the next session is transformed and validated.
NextSession(r) ==
  LET t == task[r]
      sessions == src[r].sessions
  IN
  /\ t.pc = "sessions"
  /\ IF t.si > Len(sessions)
     THEN /\ task' = [task EXCEPT ![r] = [t EXCEPT !.pc = "users"]]
          /\ now' = now
     ELSE LET tr == transformLegacySession(sessions[t.si], Str(t.roomId),
                                           TargetEventId, now)
          IN  /\ task' = [task EXCEPT ![r] =
                            IF tr.ok THEN [t EXCEPT !.cur = tr.data,
                                                    !.pc = createOrUpdateSessionEntry]
                            ELSE SessionFailed(t)]
              /\ now' \in (IF tr.ok /\ tr.data.sourceSystemId = LegacyStamp(now)
                           THEN {now, now + 1} ELSE {now})
  /\ UNCHANGED <<pp, mr, vc, rt, tEvent, exit, src, config, run, phase, faults, tRooms, tSessions, tSubSessions,
                 log, result, prev>>

\* POST sessions.
PostSession(r) ==
  LET t == task[r] IN
  /\ t.pc = "session_post"
  /\ \E a \in ChildAnswers(SessionConflict(Ssid(t)),
                           \E x \in tRooms : x.id = t.cur.roomId.s) :
       /\ Spend(a)
       /\ Sent(r, Req("POST", "sessions", Ent("session", t.si, 0), Ssid(t), "",
                      t.cur.roomId.s, Keys(t.cur), a))
       /\ tSessions' = IF a = "ok"
                       THEN tSessions \cup {[id |-> NewSessionId(Ssid(t)),
                                             sourceSystemId |-> Ssid(t),
                                             roomId |-> t.cur.roomId.s]}
                       ELSE tSessions
       /\ task' = [task EXCEPT ![r] =
                     CASE a = "ok" -> SessionReturned(t, NewSessionId(Ssid(t)))
                       [] a = "409" -> [t EXCEPT !.pc = "session_lookup"]
                       [] OTHER -> SessionFailed(t)]
  /\ UNCHANGED <<pp, mr, vc, rt, tEvent, exit, src, config, run, phase, now, tRooms, tSubSessions, result, prev>>

\* 409 "already in use": getSessionBySourceSystemId (null when getSessions fails);
\* no existing session: the mock session object is returned.
LookupSession(r) ==
  LET t == task[r] IN
  /\ t.pc = "session_lookup"
  /\ \E a \in Answers(FALSE) :
       LET found == IF a = "ok" THEN getSessionBySourceSystemId(tSessions, Ssid(t))
                    ELSE {} IN
       /\ Spend(a)
       /\ Sent(r, Req("GET", "sessions", Ent("session", t.si, 0), Ssid(t), "", "",
                      {}, a))
       /\ task' = [task EXCEPT ![r] =
                     IF found # {}
                     THEN [t EXCEPT !.match = (CHOOSE x \in found : TRUE).id,
                                    !.pc = "session_update"]
                     ELSE SessionReturned(t, MockId(Ssid(t)))]
  /\ UNCHANGED <<pp, mr, vc, rt, tEvent, exit, src, config, run, phase, now, tRooms, tSessions, tSubSessions,
                 result, prev>>

\* updateSession: PUT sessionById; when it fails the mock session object is returned.
UpdateSession(r) ==
  LET t == task[r] IN
  /\ t.pc = "session_update"
  /\ \E a \in Answers(FALSE) :
       /\ Spend(a)
       /\ Sent(r, Req("PUT", "sessions", Ent("session", t.si, 0), Ssid(t), t.match,
                      t.cur.roomId.s, Keys(updateSessionBody(t.cur)), a))
       /\ task' = [task EXCEPT ![r] =
                     IF a = "ok" THEN SessionReturned(t, t.match)
                     ELSE SessionReturned(t, MockId(Ssid(t)))]
  /\ UNCHANGED <<pp, mr, vc, rt, tEvent, exit, src, config, run, phase, now, tRooms, tSessions, tSubSessions,
                 result, prev>>

(***************************************************************************)
(* processSubSessions / createOrUpdateSubSession.                          *)
(***************************************************************************)
\* The loop head: the next sub-session is transformed and validated; a failure
\* is logged and the loop goes on.  After the last one the session loop goes on.
NextSubSession(r) ==
  LET t == task[r]
      subSessions == SubSessionsOf(src[r].sessions[t.si])
  IN
  /\ t.pc = "subs"
  /\ IF t.bi > Len(subSessions)
     THEN /\ task' = [task EXCEPT ![r] = [t EXCEPT !.si = @ + 1, !.pc = "sessions"]]
          /\ now' = now
     ELSE LET tr == transformLegacySubSession(subSessions[t.bi], Str(t.sessionId),
                                              TargetEventId, now)
          IN  /\ task' = [task EXCEPT ![r] =
                            IF tr.ok THEN [t EXCEPT !.cur = tr.data,
                                                    !.pc = createOrUpdateSubSessionEntry]
                            ELSE SubSessionOver(t)]
              /\ now' \in (IF tr.ok /\ tr.data.sourceSystemId = LegacyStamp(now)
                           THEN {now, now + 1} ELSE {now})
  /\ UNCHANGED <<pp, mr, vc, rt, tEvent, exit, src, config, run, phase, faults, tRooms, tSessions, tSubSessions,
                 log, result, prev>>

\* The check before the create: getSubSessionBySourceSystemId (null on failure).
CheckSubSession(r) ==
  LET t == task[r] IN
  /\ t.pc = "sub_check"
  /\ \E a \in Answers(FALSE) :
       LET found == IF a = "ok"
                    THEN getSubSessionBySourceSystemId(tSubSessions, Ssid(t))
                    ELSE {} IN
       /\ Spend(a)
       /\ Sent(r, Req("GET", "subSessions", Ent("subSession", t.si, t.bi), Ssid(t),
                      "", "", {}, a))
       /\ task' = [task EXCEPT ![r] =
                     IF found # {}
                     THEN [t EXCEPT !.match = (CHOOSE x \in found : TRUE).id,
                                    !.pc = "sub_update_first"]
                     ELSE [t EXCEPT !.pc = "sub_post"]]
  /\ UNCHANGED <<pp, mr, vc, rt, tEvent, exit, src, config, run, phase, now, tRooms, tSessions, tSubSessions,
                 result, prev>>

\* The target applies an accepted sub-session update.
ApplySubSessionUpdate(id, body) ==
  {IF x.id = id /\ "order" \in DOMAIN body THEN [x EXCEPT !.order = body.order.n] ELSE x :
     x \in tSubSessions}

\* updateSubSession after the check found the sub-session; a failure is caught
\* by the check's catch block and the create is attempted.
UpdateSubSessionFirst(r) ==
  LET t == task[r]
      body == updateSubSessionBody(t.cur)
  IN
  /\ t.pc = "sub_update_first"
  /\ \E a \in Answers(FALSE) :
       /\ Spend(a)
       /\ Sent(r, Req("PUT", "subSessions", Ent("subSession", t.si, t.bi), Ssid(t),
                      t.match, t.cur.sessionId.s, Keys(body), a))
       /\ tSubSessions' = IF a = "ok" THEN ApplySubSessionUpdate(t.match, body)
                          ELSE tSubSessions
       /\ task' = [task EXCEPT ![r] =
                     IF a = "ok" THEN SubSessionOver(t) ELSE [t EXCEPT !.pc = "sub_post"]]
  /\ UNCHANGED <<pp, mr, vc, rt, tEvent, exit, src, config, run, phase, now, tRooms, tSessions, result, prev>>

\* POST subSessions; any other error than the conflict is only logged.
PostSubSession(r) ==
  LET t == task[r] IN
  /\ t.pc = "sub_post"
  /\ \E a \in ChildAnswers(SubSessionConflict(Ssid(t)),
                           \E x \in tSessions : x.id = t.cur.sessionId.s) :
       /\ Spend(a)
       /\ Sent(r, Req("POST", "subSessions", Ent("subSession", t.si, t.bi), Ssid(t),
                      "", t.cur.sessionId.s, Keys(t.cur), a))
       /\ tSubSessions' = IF a = "ok"
                          THEN tSubSessions \cup {[id |-> NewSubSessionId(Ssid(t)),
                                                   sourceSystemId |-> Ssid(t),
                                                   sessionId |-> t.cur.sessionId.s,
                                                   order |-> t.cur.order.n]}
                          ELSE tSubSessions
       /\ task' = [task EXCEPT ![r] =
                     IF a = "409" THEN [t EXCEPT !.pc = "sub_lookup"]
                     ELSE SubSessionOver(t)]
  /\ UNCHANGED <<pp, mr, vc, rt, tEvent, exit, src, config, run, phase, now, tRooms, tSessions, result, prev>>

\* 409 "already in use": lookup; no existing sub-session: the mock object is returned.
LookupSubSession(r) ==
  LET t == task[r] IN
  /\ t.pc = "sub_lookup"
  /\ \E a \in Answers(FALSE) :
       LET found == IF a = "ok"
                    THEN getSubSessionBySourceSystemId(tSubSessions, Ssid(t))
                    ELSE {} IN
       /\ Spend(a)
       /\ Sent(r, Req("GET", "subSessions", Ent("subSession", t.si, t.bi), Ssid(t),
                      "", "", {}, a))
       /\ task' = [task EXCEPT ![r] =
                     IF found # {}
                     THEN [t EXCEPT !.match = (CHOOSE x \in found : TRUE).id,
                                    !.pc = "sub_update"]
                     ELSE SubSessionOver(t)]
  /\ UNCHANGED <<pp, mr, vc, rt, tEvent, exit, src, config, run, phase, now, tRooms, tSessions, tSubSessions,
                 result, prev>>

\* updateSubSession after the conflict; when it fails the mock object is returned.
UpdateSubSession(r) ==
  LET t == task[r]
      body == updateSubSessionBody(t.cur)
  IN
  /\ t.pc = "sub_update"
  /\ \E a \in Answers(FALSE) :
       /\ Spend(a)
       /\ Sent(r, Req("PUT", "subSessions", Ent("subSession", t.si, t.bi), Ssid(t),
                      t.match, t.cur.sessionId.s, Keys(body), a))
       /\ tSubSessions' = IF a = "ok" THEN ApplySubSessionUpdate(t.match, body)
                          ELSE tSubSessions
       /\ task' = [task EXCEPT ![r] = SubSessionOver(t)]
  /\ UNCHANGED <<pp, mr, vc, rt, tEvent, exit, src, config, run, phase, now, tRooms, tSessions, result, prev>>

(***************************************************************************)
(* processUsers, processFiles.                                             *)
(***************************************************************************)
\* One pass of the user loop: transformLegacyUser, createUser, and for a
\* moderator transformLegacyModerator and createModerator.  Any throw adds one
\* "User processing" error.  After the last user the files follow.
ProcessUser(r) ==
  LET t == task[r]
      users == src[r].users
  IN
  /\ t.pc = "users"
  /\ IF t.ui > Len(users)
     THEN /\ task' = [task EXCEPT ![r] = [t EXCEPT !.pc = "files"]]
          /\ UNCHANGED <<faults, log>>
     ELSE LET user == users[t.ui]
              tr == transformLegacyUser(user, TargetEventId)
              failed == [t EXCEPT !.res.errors = Append(@, Err("User processing", t.ui)),
                                  !.ui = @ + 1]
          IN  IF ~tr.ok
              THEN /\ task' = [task EXCEPT ![r] = failed]
                   /\ UNCHANGED <<faults, log>>
              ELSE \E a \in Answers(FALSE) :
                     LET created == [t EXCEPT !.res.usersProcessed = @ + 1]
                         mod == transformLegacyModerator(user, Str("uuid-user"),
                                                         Str(t.roomId), TargetEventId)
                     IN
                     /\ Spend(a)
                     /\ Sent(r, Req("POST", "users", Ent("user", t.ui, 0),
                                    tr.data.email.s, "", "", Keys(tr.data), a))
                     /\ task' = [task EXCEPT ![r] =
                          IF a # "ok" THEN failed
                          ELSE IF Truthy(Get(user, "isModerator")) /\ ~mod.ok
                               THEN [created EXCEPT
                                       !.res.errors = Append(@, Err("User processing", t.ui)),
                                       !.ui = @ + 1]
                          ELSE [created EXCEPT !.ui = @ + 1]]
  /\ UNCHANGED <<pp, mr, vc, rt, tEvent, exit, src, config, run, phase, now, tRooms, tSessions, tSubSessions,
                 result, prev>>

\* A loop that skips no file.
skipFileNever(file) == FALSE
\* const fileId = file.WalkInFileId || file.FileId || file.id;
\* if (!fileId) { ... continue; }
skipFile(file) ==
  ~Truthy(FirstOf(file, <<"WalkInFileId", "FileId">>, Get(file, "id")))

\* processRoom step 5, one pass of the loop of processFiles: a file without an
\* id is skipped; else download, transformLegacyFile and upload, and any throw
\* adds one "File processing" error.  After the last file processRoom returns.
ProcessFiles(r) ==
  LET t == task[r]
      files == src[r].files
  IN
  /\ t.pc = "files"
  /\ task' = [task EXCEPT ![r] =
       IF t.fi > Len(files) THEN [t EXCEPT !.pc = "done"]
       ELSE LET file == files[t.fi]
                tr == transformLegacyFile(file, Str(t.roomId), TargetEventId)
            IN  IF skipFile(file) THEN [t EXCEPT !.fi = @ + 1]
                ELSE IF tr.ok
                     THEN [t EXCEPT !.downloaded = @ \cup {t.fi},
                                    !.uploaded = @ \cup {t.fi},
                                    !.res.filesUploaded = @ + 1, !.fi = @ + 1]
                ELSE [t EXCEPT !.downloaded = @ \cup {t.fi},
                               !.res.errors = Append(@, Err("File processing", t.fi)),
                               !.fi = @ + 1]]
  /\ UNCHANGED <<pp, mr, vc, rt, tEvent, exit, src, config, run, phase, now, faults, tRooms, tSessions,
                 tSubSessions, log, result, prev>>

(***************************************************************************)
(* The end of a run: results into the MigrationResult.                     *)
(***************************************************************************)
\* What processRooms resolves with for a room whose processing function returned.
TaskWrapper(r) == [success |-> TRUE, room |-> r, result |-> task[r].res, index |-> r - 1]

\* roomResult.f || 0
NumField(obj, f) == IF f \in DOMAIN obj THEN obj[f] ELSE 0

RECURSIVE aggregateRoomResults(_, _)
aggregateRoomResults(roomResults, res) ==
  IF roomResults = <<>> THEN res
  ELSE LET roomResult == Head(roomResults)
           counted ==
             IF roomResult.success
             THEN [res EXCEPT
                     !.roomsProcessed = @ + 1,
                     !.sessionsCreated = @ + NumField(roomResult, "sessionsCreated"),
                     !.filesUploaded = @ + NumField(roomResult, "filesUploaded"),
                     !.usersProcessed = @ + NumField(roomResult, "usersProcessed")]
             ELSE res
           withErrors ==
             IF "errors" \in DOMAIN roomResult
             THEN [counted EXCEPT !.errors = @ \o roomResult.errors]
             ELSE counted
       IN  aggregateRoomResults(Tail(roomResults), withErrors)

\* migrateSingleRoom's "Update result" block.
singleRoomResult(roomResult, res) ==
  IF roomResult.success
  THEN [res EXCEPT !.roomsProcessed = 1,
                   !.sessionsCreated = @ + roomResult.sessionsCreated,
                   !.filesUploaded = @ + roomResult.filesUploaded,
                   !.usersProcessed = @ + roomResult.usersProcessed]
  ELSE [res EXCEPT !.roomsProcessed = 1, !.errors = @ \o roomResult.errors]

\* Every room task is over: aggregate, then result.success = (errors.length === 0);
\* the result is returned to the application, which exits with its code.
Finish ==
  /\ phase = "rooms"
  /\ \A r \in RoomIdx : task[r].pc \in {"done", "skipped"}
  /\ LET res == IF config.migrateAllRooms
                THEN aggregateRoomResults([r \in RoomIdx |-> TaskWrapper(r)], result)
                ELSE singleRoomResult(task[1].res, result)
         final == [res EXCEPT !.success = (Len(res.errors) = 0), !.endTime = Num(now)]
     IN  /\ result' = final
         /\ exit' = ExitCode(final)
  /\ phase' = "done"
  /\ UNCHANGED <<pp, mr, vc, rt, tEvent, src, config, run, now, faults, tRooms, tSessions, tSubSessions,
                 task, log, prev>>

Next ==
  \/ StartRun
  \/ Finish
  \/ \E r \in RoomIdx : Admit(r)
  \/ \E r \in RoomIdx : PostRoom(r)
  \/ \E r \in RoomIdx : LookupRoom(r)
  \/ \E r \in RoomIdx : LookupRoomOuter(r)
  \/ \E r \in RoomIdx : NextSession(r)
  \/ \E r \in RoomIdx : PostSession(r)
  \/ \E r \in RoomIdx : LookupSession(r)
  \/ \E r \in RoomIdx : UpdateSession(r)
  \/ \E r \in RoomIdx : NextSubSession(r)
  \/ \E r \in RoomIdx : CheckSubSession(r)
  \/ \E r \in RoomIdx : UpdateSubSessionFirst(r)
  \/ \E r \in RoomIdx : PostSubSession(r)
  \/ \E r \in RoomIdx : LookupSubSession(r)
  \/ \E r \in RoomIdx : UpdateSubSession(r)
  \/ \E r \in RoomIdx : ProcessUser(r)
  \/ \E r \in RoomIdx : ProcessFiles(r)

Spec == Init /\ [][Next]_vars

(***************************************************************************)
(* The tool's process with its signal handlers (MigrationApplication): one  *)
(* all-rooms run after another over two rooms, during which SIGINT or      *)
(* SIGTERM may arrive.                                                     *)
(***************************************************************************)
\* The positions of processRoom at which a target request is being executed.
RequestPcs ==
  {"room_post", "room_lookup", "room_lookup_outer", "session_post", "session_lookup",
   "session_update", "sub_check", "sub_update_first", "sub_post", "sub_lookup",
   "sub_update"}

\* process.on('SIGINT' | 'SIGTERM'): the handler logs and calls process.exit(0).
\* The process ends where it is: room tasks stop at their current position and
\* executeMigration never returns.  (What a later start of the tool does after a
\* kill is not followed.)
Signal ==
  /\ phase = "rooms"
  /\ exit = -1
  /\ exit' = 0
  /\ phase' = "killed"
  /\ UNCHANGED <<pp, mr, vc, rt, tEvent, src, config, run, now, faults, tRooms, tSessions,
                 tSubSessions, task, log, result, prev>>

InitApp ==
  /\ Init
  /\ src = DataSharedIds
  /\ config = [maxConcurrentRooms |-> MaxConcurrency, maxConcurrent |-> 0,
               migrateAllRooms |-> TRUE, dryRun |-> FALSE]
  /\ tEvent = [found |-> TRUE, eventLocations |-> EventLocations]

SpecApp == InitApp /\ [][Next \/ Signal]_vars

(***************************************************************************)
(* ParallelProcessor on its own: processRooms / processItems over a list   *)
(* of items with a processing function that may throw for any item.        *)
(***************************************************************************)
MaxItems == 3

migrationVars == <<src, config, run, phase, now, faults, tRooms, tSessions,
                   tSubSessions, task, log, result, prev, tEvent, exit>>

Items == 1..pp.n
RunningCount(st) == Cardinality({i \in DOMAIN st : st[i] = "running"})
Queued(st) == {i \in DOMAIN st : st[i] = "queued"}

\* A limiter that takes the task that was enqueued last.
LastQueued(st) == CHOOSE i \in Queued(st) : \A j \in Queued(st) : i >= j
\* p-limit takes the task that was enqueued first.
FirstQueued(st) == CHOOSE i \in Queued(st) : \A j \in Queued(st) : i <= j

\* p-limit without the limit: every queued task is started.
pLimitStartAll(q, concurrency) ==
  [q EXCEPT !.st = [i \in DOMAIN q.st |-> IF q.st[i] = "queued" THEN "running" ELSE q.st[i]],
            !.started = @ \o [k \in 1..Cardinality(Queued(q.st)) |->
                                CHOOSE i \in Queued(q.st) :
                                  Cardinality({j \in Queued(q.st) : j < i}) = k - 1],
            !.statistics.activeTasks = @ + Cardinality(Queued(q.st)),
            !.statistics.maxActiveTasks =
               IF @ > q.statistics.activeTasks + Cardinality(Queued(q.st)) THEN @
               ELSE q.statistics.activeTasks + Cardinality(Queued(q.st))]

\* p-limit: while fewer than `concurrency` tasks run, the first queued task is
\* started; the started function counts itself in (activeTasks++, maxActiveTasks)
\* and calls the processing function.
RECURSIVE pLimitStart(_, _)
pLimitStart(q, concurrency) ==
  IF RunningCount(q.st) < concurrency /\ Queued(q.st) # {}
  THEN LET i == FirstQueued(q.st)
           active == q.statistics.activeTasks + 1
       IN  pLimitStart([q EXCEPT !.st[i] = "running",
                                 !.started = Append(@, i),
                                 !.statistics.activeTasks = active,
                                 !.statistics.maxActiveTasks =
                                    IF @ > active THEN @ ELSE active],
                       concurrency)
  ELSE q

\* A limited task without the try/catch: its promise rejects when the processing
\* function throws.
limitedTaskUncaught(i, threw) ==
  IF threw THEN [status |-> "rejected", value |-> <<>>]
  ELSE [status |-> "fulfilled",
        value |-> [success |-> TRUE, item |-> i, result |-> Num(2 * i), index |-> i - 1]]

\* What the promise of a limited task settles to: the try/catch turns a throw of
\* the processing function into a value.  (The processing function of item i
\* returns the number 2 * i.)
limitedTask(i, threw) ==
  [status |-> "fulfilled",
   value |-> IF threw
             THEN [success |-> FALSE, item |-> i, error |-> "thrown by fn", index |-> i - 1]
             ELSE [success |-> TRUE, item |-> i, result |-> Num(2 * i), index |-> i - 1]]

\* The loop over settledResults after Promise.allSettled.
collectResults(settledResults) ==
  [k \in DOMAIN settledResults |->
     IF settledResults[k].status = "fulfilled" THEN settledResults[k].value
     ELSE [success |-> FALSE, error |-> "rejected", duration |-> 0, index |-> 0 - 1]]

InitPP ==
  /\ src = DataMainHall
  /\ config = [maxConcurrentRooms |-> 1, maxConcurrent |-> 0, migrateAllRooms |-> FALSE,
               dryRun |-> FALSE]
  /\ run = 0
  /\ phase = "idle"
  /\ now = 0
  /\ faults = 0
  /\ tRooms = {} /\ tSessions = {} /\ tSubSessions = {}
  /\ task = [r \in 1..Len(src) |-> NewTask]
  /\ log = [r \in 1..Len(src) |-> <<>>]
  /\ result = [roomsProcessed |-> 0, sessionsCreated |-> 0, usersProcessed |-> 0,
               filesUploaded |-> 0, errors |-> <<>>, success |-> FALSE,
               endTime |-> Null]
  /\ prev = 0
  /\ tEvent = [found |-> TRUE, eventLocations |-> EventLocations]
  /\ exit = -1
  /\ pp \in {[NewParallelProcessor EXCEPT !.concurrency = c] : c \in 1..MaxConcurrency}
  /\ mr = NewMigrationResultObject
  /\ vc = NoValidateConfigCall
  /\ rt = NoRetryCall

\* processRooms(rooms, fn) / processItems(items, fn) is called: the statistics
\* are reset (maxActiveTasks is not), every item is handed to this.limit, and
\* p-limit starts the first ones.
PPCall(method, n) ==
  /\ pp.status = "idle"
  /\ pp' = IF n = 0
           THEN [pp EXCEPT !.status = "settled", !.method = method]
           ELSE pLimitStart([pp EXCEPT
                   !.status = "running", !.method = method, !.n = n,
                   !.st = [i \in 1..n |-> "queued"],
                   !.statistics.totalTasks = n,
                   !.statistics.completedTasks = 0,
                   !.statistics.failedTasks = 0,
                   !.statistics.activeTasks = 0], pp.concurrency)
  /\ UNCHANGED <<migrationVars, mr, vc, rt>>

\* A limited function that never counts itself out of activeTasks.
PPSettleKeepsActive(i, threw) ==
  /\ pp.status = "running"
  /\ i \in Items
  /\ pp.st[i] = "running"
  /\ LET q == [pp EXCEPT
                 !.st[i] = IF threw THEN "threw" ELSE "returned",
                 !.statistics.completedTasks = IF threw THEN @ ELSE @ + 1,
                 !.statistics.failedTasks = IF threw THEN @ + 1 ELSE @]
         r == pLimitStart(q, pp.concurrency)
     IN  pp' = IF \A j \in Items : r.st[j] \in {"returned", "threw"}
               THEN [r EXCEPT !.status = "settled"] ELSE r
  /\ UNCHANGED <<migrationVars, mr, vc, rt>>

\* The processing function of a running item returns or throws; the limited
\* function updates the statistics and returns its value, and p-limit starts the
\* next queued task.
PPSettle(i, threw) ==
  /\ pp.status = "running"
  /\ i \in Items
  /\ pp.st[i] = "running"
  /\ LET q == [pp EXCEPT
                 !.st[i] = IF threw THEN "threw" ELSE "returned",
                 !.statistics.completedTasks = IF threw THEN @ ELSE @ + 1,
                 !.statistics.failedTasks = IF threw THEN @ + 1 ELSE @,
                 !.statistics.activeTasks = @ - 1]
         r == pLimitStart(q, pp.concurrency)
     IN  pp' = IF \A j \in Items : r.st[j] \in {"returned", "threw"}
               THEN [r EXCEPT !.status = "settled"] ELSE r
  /\ UNCHANGED <<migrationVars, mr, vc, rt>>

\* Promise.allSettled(limitedTasks) is over: results are collected in input
\* order and the call resolves with them.
PPResolve ==
  /\ pp.status = "settled"
  /\ LET settledResults == [i \in Items |-> limitedTask(i, pp.st[i] = "threw")]
         rejected == Cardinality({i \in Items : settledResults[i].status = "rejected"})
     IN  pp' = [pp EXCEPT !.status = "resolved",
                          !.results = collectResults(settledResults),
                          !.statistics.failedTasks = @ + rejected]
  /\ UNCHANGED <<migrationVars, mr, vc, rt>>

NextPP ==
  \/ \E method \in {"processRooms", "processItems"}, n \in 0..MaxItems : PPCall(method, n)
  \/ \E i \in 1..MaxItems, threw \in BOOLEAN : PPSettle(i, threw)
  \/ PPResolve

SpecPP == InitPP /\ [][NextPP]_vars

(***************************************************************************)
(* MigrationResult on its own: a new object on which addError, addWarning, *)
(* incrementStatistic and finalize are called in any order, as are the     *)
(* methods the unit tests call.                                            *)
(***************************************************************************)
\* The most calls of one method on the object.
MaxCalls == 3

\* Everything but the MigrationResult object stays as constructed.
allButMr == <<src, config, run, phase, now, faults, tRooms, tSessions, tSubSessions,
              task, log, result, prev, pp, tEvent, exit, vc, rt>>

\* addError(context, error): the entry is pushed; `if (this.errors.length === 1)
\* this.success = false`.
addError(o, context) ==
  LET pushed == [o EXCEPT !.errors = Append(@, context)]
  IN  IF Len(pushed.errors) = 1 THEN [pushed EXCEPT !.success = Bool(FALSE)] ELSE pushed

\* addWarning(context, message)
addWarning(o, context) == [o EXCEPT !.warnings = Append(@, context)]

\* incrementStatistic('roomsProcessed')
incrementStatistic(o) == [o EXCEPT !.roomsProcessed = @ + 1]

\* finalize(): endTime is set; `if (this.success === null) this.success =
\* this.errors.length === 0`.
finalize(o) ==
  LET ended == [o EXCEPT !.endTime = Num(1)]
  IN  IF o.success = Null THEN [ended EXCEPT !.success = Bool(Len(o.errors) = 0)]
      ELSE ended

InitMR ==
  /\ Init
  /\ src = DataMainHall
  /\ config = [maxConcurrentRooms |-> 1, maxConcurrent |-> 0, migrateAllRooms |-> FALSE,
               dryRun |-> FALSE]
  /\ tEvent = [found |-> TRUE, eventLocations |-> EventLocations]

MRAddError ==
  /\ Len(mr.errors) < MaxCalls
  /\ \E context \in {"Room A", "Room B"} : mr' = addError(mr, context)
  /\ UNCHANGED allButMr

MRAddWarning ==
  /\ Len(mr.warnings) < MaxCalls
  /\ mr' = addWarning(mr, "Room A")
  /\ UNCHANGED allButMr

MRIncrementStatistic ==
  /\ mr.roomsProcessed < MaxCalls
  /\ mr' = incrementStatistic(mr)
  /\ UNCHANGED allButMr

\* result.markRoomFailed() and the like: TypeError, the object is left as it is.
MRCallMissing ==
  /\ \E method \in {"incrementRoomCount", "markRoomProcessed", "markRoomFailed"} :
       mr' = [mr EXCEPT !.threw = TRUE]
  /\ UNCHANGED allButMr

MRFinalize ==
  /\ mr' = finalize(mr)
  /\ UNCHANGED allButMr

NextMR ==
  \/ MRAddError
  \/ MRAddWarning
  \/ MRIncrementStatistic
  \/ MRCallMissing
  \/ MRFinalize

SpecMR == InitMR /\ [][NextMR]_vars

(***************************************************************************)
(* ConfigManager.validateConfig on its own: one call on a configuration    *)
(* object built from the command line.                                     *)
(***************************************************************************)
allButVc == <<src, config, run, phase, now, faults, tRooms, tSessions, tSubSessions,
              task, log, result, prev, pp, tEvent, exit, mr, rt>>

\* String.prototype.trim on the strings of the model.
Trim == [s \in {"", " ", "  ", "EVT", " EVT ", "Main Hall"} |->
           CASE s \in {"", " ", "  "} -> ""
             [] s = " EVT " -> "EVT"
             [] OTHER -> s]

\* isNaN(v): Number(v) is NaN for undefined and for a string that is no
\* numeral; an empty or blank string, null and a boolean convert to a number.
isNaN(v) == \/ v.t = "undef"
            \/ v.t = "str" /\ Trim[v.s] # ""
\* Number(v) for the values that are compared with a number.
NumberOf(v) == IF v.t = "num" THEN v.n ELSE 0

\* The configuration objects passed to validateConfig.
ConfigInputs ==
  [legacyEventName : {Str(""), Str("  "), Str("EVT"), Str(" EVT ")},
   targetEventId : {Num(-1), Num(0), Num(123), Str("EVT")},
   roomName : {Null, Str(""), Str(" "), Str("Main Hall")},
   dryRun : {Bool(FALSE), Bool(TRUE)},
   maxConcurrentRooms : {Null, Num(0), Num(-1), Num(5)},
   timeout : {Null, Num(500), Num(30000)}]

\* roomName?.trim()
TrimmedRoomName(c) ==
  IF c.roomName.t \in {"null", "undef"} THEN Undef ELSE Str(Trim[c.roomName.s])

\* A validateConfig that checks the required fields only.
validateConfigRequiredOnly(c) ==
  LET errors ==
        (IF ~Truthy(c.legacyEventName) \/ Trim[c.legacyEventName.s] = ""
         THEN <<"Legacy event name is required">> ELSE <<>>)
        \o (IF \/ ~Truthy(c.targetEventId) \/ isNaN(c.targetEventId)
               \/ NumberOf(c.targetEventId) <= 0
            THEN <<"Target event ID must be a positive number">> ELSE <<>>)
  IN  IF Len(errors) > 0 THEN [ok |-> FALSE, errors |-> errors]
      ELSE [ok |-> TRUE,
            data |-> [legacyEventName |-> Str(Trim[c.legacyEventName.s]),
                      targetEventId |-> c.targetEventId,
                      roomName |-> OrChain(<<TrimmedRoomName(c), Null>>),
                      migrateAllRooms |-> Bool(~Truthy(TrimmedRoomName(c))),
                      dryRun |-> Bool(Truthy(c.dryRun)),
                      maxConcurrentRooms |-> OrChain(<<c.maxConcurrentRooms, Null>>),
                      timeout |-> OrChain(<<c.timeout, Null>>)]]
\* validateConfig(config): the error list is built from the four checks; it
\* throws when the list is not empty, and else returns the normalized object.
validateConfig(c) ==
  LET errors ==
        (IF ~Truthy(c.legacyEventName) \/ Trim[c.legacyEventName.s] = ""
         THEN <<"Legacy event name is required">> ELSE <<>>)
        \o (IF \/ ~Truthy(c.targetEventId) \/ isNaN(c.targetEventId)
               \/ NumberOf(c.targetEventId) <= 0
            THEN <<"Target event ID must be a positive number">> ELSE <<>>)
        \o (IF /\ Truthy(c.maxConcurrentRooms)
               /\ (isNaN(c.maxConcurrentRooms) \/ NumberOf(c.maxConcurrentRooms) < 1)
            THEN <<"Max concurrent rooms must be a positive number">> ELSE <<>>)
        \o (IF /\ Truthy(c.timeout)
               /\ (isNaN(c.timeout) \/ NumberOf(c.timeout) < 1000)
            THEN <<"Timeout must be at least 1000 milliseconds">> ELSE <<>>)
  IN  IF Len(errors) > 0 THEN [ok |-> FALSE, errors |-> errors]
      ELSE [ok |-> TRUE,
            data |-> [legacyEventName |-> Str(Trim[c.legacyEventName.s]),
                      targetEventId |-> c.targetEventId,
                      roomName |-> OrChain(<<TrimmedRoomName(c), Null>>),
                      migrateAllRooms |-> Bool(~Truthy(TrimmedRoomName(c))),
                      dryRun |-> Bool(Truthy(c.dryRun)),
                      maxConcurrentRooms |-> OrChain(<<c.maxConcurrentRooms, Null>>),
                      timeout |-> OrChain(<<c.timeout, Null>>)]]

InitVC ==
  /\ src = DataMainHall
  /\ config = [maxConcurrentRooms |-> 1, maxConcurrent |-> 0, migrateAllRooms |-> FALSE,
               dryRun |-> FALSE]
  /\ run = 0
  /\ phase = "idle"
  /\ now = 0
  /\ faults = 0
  /\ tRooms = {} /\ tSessions = {} /\ tSubSessions = {}
  /\ task = [r \in 1..Len(src) |-> NewTask]
  /\ log = [r \in 1..Len(src) |-> <<>>]
  /\ result = NewMigrationResult
  /\ prev = 0
  /\ pp = NewParallelProcessor
  /\ tEvent = [found |-> TRUE, eventLocations |-> EventLocations]
  /\ exit = -1
  /\ mr = NewMigrationResultObject
  /\ rt = NoRetryCall
  /\ vc \in {[NoValidateConfigCall EXCEPT !.config = c] : c \in ConfigInputs}

\* ConfigManager.validateConfig(config) is called and returns or throws.
VCCall ==
  /\ vc.status = "idle"
  /\ LET v == validateConfig(vc.config)
     IN  vc' = IF v.ok THEN [vc EXCEPT !.status = "returned", !.value = v.data]
               ELSE [vc EXCEPT !.status = "thrown", !.value = v.errors]
  /\ UNCHANGED allButVc

SpecVC == InitVC /\ [][VCCall]_vars

(***************************************************************************)
(* Runs started with --max-concurrent: all-rooms runs over two rooms by a  *)
(* service constructed with the largest concurrency.                       *)
(***************************************************************************)
InitCli ==
  /\ src = DataSharedIds
  /\ config \in {c \in Configs : /\ c.maxConcurrent > 0
                                 /\ c.maxConcurrentRooms = MaxConcurrency
                                 /\ c.migrateAllRooms
                                 /\ ~c.dryRun}
  /\ run = 0
  /\ phase = "idle"
  /\ now = 0
  /\ faults = 0
  /\ tRooms = {} /\ tSessions = {} /\ tSubSessions = {}
  /\ task = [r \in 1..Len(src) |-> NewTask]
  /\ log = [r \in 1..Len(src) |-> <<>>]
  /\ result = NewMigrationResult
  /\ prev = 0
  /\ pp = NewParallelProcessor
  /\ tEvent = [found |-> TRUE, eventLocations |-> EventLocations]
  /\ exit = -1
  /\ mr = NewMigrationResultObject
  /\ vc = NoValidateConfigCall
  /\ rt = NoRetryCall

SpecCli == InitCli /\ [][Next]_vars

(***************************************************************************)
(* Utils.retry on its own: one call retry(operation, maxRetries, baseDelay) *)
(* with an operation whose k-th invocation either returns the value k or   *)
(* throws the error k.                                                     *)
(***************************************************************************)
\* The largest maxRetries argument.
MaxRetryArg == 3

allButRt == <<src, config, run, phase, now, faults, tRooms, tSessions, tSubSessions,
              task, log, result, prev, pp, tEvent, exit, mr, vc>>

\* A loop that makes one more round than maxRetries allows.
retryLoopOneMore(attempt, maxRetries) == attempt <= maxRetries + 1

\* The condition of `for (let attempt = 0; attempt <= maxRetries; attempt++)`.
retryLoop(attempt, maxRetries) == attempt <= maxRetries

\* delay + jitter, with delay = baseDelay * Math.pow(2, attempt) and jitter =
\* Math.random() * 0.1 * delay, which lies in [0, delay / 10): its least value
\* and a value in the middle.
sleepTimes(baseDelay, attempt) ==
  LET delay == baseDelay * 2^attempt
  IN  {delay + jitter : jitter \in {0, delay \div 20}}

InitRT ==
  /\ src = DataMainHall
  /\ config = [maxConcurrentRooms |-> 1, maxConcurrent |-> 0, migrateAllRooms |-> FALSE,
               dryRun |-> FALSE]
  /\ run = 0
  /\ phase = "idle"
  /\ now = 0
  /\ faults = 0
  /\ tRooms = {} /\ tSessions = {} /\ tSubSessions = {}
  /\ task = [r \in 1..Len(src) |-> NewTask]
  /\ log = [r \in 1..Len(src) |-> <<>>]
  /\ result = NewMigrationResult
  /\ prev = 0
  /\ pp = NewParallelProcessor
  /\ tEvent = [found |-> TRUE, eventLocations |-> EventLocations]
  /\ exit = -1
  /\ mr = NewMigrationResultObject
  /\ vc = NoValidateConfigCall
  /\ rt = NoRetryCall

\* retry(operation, maxRetries, baseDelay) is called: the loop is entered when
\* 0 <= maxRetries, otherwise `throw lastError` throws undefined at once.
RTCall(maxRetries, baseDelay) ==
  /\ rt.status = "idle"
  /\ rt' = [rt EXCEPT !.maxRetries = maxRetries, !.baseDelay = baseDelay,
                      !.status = IF retryLoop(0, maxRetries) THEN "calling" ELSE "threw"]
  /\ UNCHANGED allButRt

\* `return await operation()` settles.  A value is returned to the caller; an
\* error becomes lastError and, unless attempt === maxRetries breaks the loop,
\* Utils.sleep(delay + jitter) starts.
RTOperation(ok) ==
  /\ rt.status = "calling"
  /\ LET k == Len(rt.outcomes) + 1
         called == [rt EXCEPT !.outcomes = Append(@, ok)]
     IN  IF ok
         THEN rt' = [called EXCEPT !.status = "returned", !.value = Num(k)]
         ELSE IF rt.attempt = rt.maxRetries
              THEN rt' = [called EXCEPT !.status = "threw", !.lastError = Num(k)]
              ELSE \E ms \in sleepTimes(rt.baseDelay, rt.attempt) :
                     rt' = [called EXCEPT !.status = "sleeping", !.lastError = Num(k),
                                          !.slept = Append(@, ms)]
  /\ UNCHANGED allButRt

\* The sleep is over: attempt++ and the loop condition is evaluated again.
RTWake ==
  /\ rt.status = "sleeping"
  /\ rt' = [rt EXCEPT !.attempt = @ + 1,
                      !.status = IF retryLoop(rt.attempt + 1, rt.maxRetries)
                                 THEN "calling" ELSE "threw"]
  /\ UNCHANGED allButRt

NextRT ==
  \/ \E maxRetries \in (0 - 1)..MaxRetryArg, baseDelay \in {0, 100, 1000} :
       RTCall(maxRetries, baseDelay)
  \/ \E ok \in BOOLEAN : RTOperation(ok)
  \/ RTWake

SpecRT == InitRT /\ [][NextRT]_vars

\* The operation settles every time it is invoked and every sleep ends (the
\* timer of Utils.sleep fires).
SpecRTFair ==
  /\ SpecRT
  /\ WF_vars(\E ok \in BOOLEAN : RTOperation(ok))
  /\ WF_vars(RTWake)

(***************************************************************************)
(* executeMigration with the failures that are thrown before any room is   *)
(* processed: environment validation, the fetch of the source rooms or     *)
(* room, and a room name the source event does not have.                   *)
(***************************************************************************)
ThrownBy == {"environment", "source fetch", "room not found"}

\* The tool is started and validateEnvironment, legacyClient.getRooms / getRoom
\* or the `!room` check throws.  The environment is validated before the mode
\* method is entered; the other two are thrown inside it, after the event
\* checks, and recorded by its catch block first.  No room is processed.
StartRunThrows(cause) ==
  LET modeContext == IF config.migrateAllRooms THEN "All rooms migration"
                     ELSE "Single room migration"
      inMode == IF cause = "environment" THEN NewMigrationResult
                ELSE [NewMigrationResult EXCEPT !.errors = <<Err(modeContext, 0)>>]
      returned == executeMigrationCatch(inMode, now + 1)
  IN
  /\ phase \in {"idle", "done"}
  /\ run < MaxRuns
  /\ cause # "environment" => eventCheck(tEvent) = "ok"
  /\ cause = "room not found" => ~config.migrateAllRooms
  /\ run' = run + 1
  /\ now' = now + 1
  /\ prev' = TargetCount
  /\ log' = [r \in RoomIdx |-> <<>>]
  /\ phase' = "done"
  /\ task' = [r \in RoomIdx |-> [NewTask EXCEPT !.pc = "skipped"]]
  /\ result' = returned
  /\ exit' = ExitCode(returned)
  /\ UNCHANGED <<pp, mr, vc, rt, tEvent, src, config, faults, tRooms, tSessions, tSubSessions>>

InitEM ==
  /\ Init
  /\ src = DataSharedIds
  /\ config.migrateAllRooms => config.maxConcurrentRooms = MaxConcurrency

SpecEM == InitEM /\ [][Next \/ \E cause \in ThrownBy : StartRunThrows(cause)]_vars

(***************************************************************************)
(* Properties.                                                             *)
(***************************************************************************)
\* The requests of the current run, as (room, position) pairs.
Requests == UNION {{<<r, i>> : i \in DOMAIN log[r]} : r \in RoomIdx}
At(p) == log[p[1]][p[2]]
\* p is the first request sent for its entity.
FirstFor(p) == \A q \in Requests :
                 (q[1] = p[1] /\ At(q).ent = At(p).ent) => q[2] >= p[2]
\* Identifiers the target system has handed out.
TargetIds == {x.id : x \in tRooms} \cup {x.id : x \in tSessions}
               \cup {x.id : x \in tSubSessions}

\* C1: after a complete run over the same source data, with no request failed,
\* the target holds as many rooms, sessions and sub-sessions as after the run
\* before it.
C1_CountsStable ==
  (phase = "done" /\ run >= 2 /\ faults = 0) => TargetCount = prev

\* C2: in a second run against the target the first run populated (no request
\* failed in either), no create request succeeds, no entity fails, and every
\* entity the run sent a request for got an accepted update request.
C2_SecondRunAllUpdated ==
  (phase = "done" /\ run = 2 /\ faults = 0) =>
    /\ \A p \in Requests : At(p).m = "POST" => At(p).st # "ok"
    /\ \A r \in RoomIdx : task[r].res.errors = <<>>
    /\ \A p \in Requests : \E q \in Requests :
         /\ q[1] = p[1] /\ At(q).ent = At(p).ent
         /\ At(q).m = "PUT" /\ At(q).st = "ok"

\* C3 as stated: the first request sent for any entity is its create request.
C3_CreateFirst ==
  \A p \in Requests : FirstFor(p) => At(p).m = "POST"

\* C3 as amended: the first request sent for a room or a session is its create
\* request; the first request sent for a sub-session is the lookup by
\* sourceSystemId, so its create request always follows a lookup.
C3_FirstRequest ==
  \A p \in Requests :
    FirstFor(p) => At(p).m = (IF At(p).ent.kind = "subSession" THEN "GET" ELSE "POST")

C3_Witness ==
  \E p, q \in Requests :
    /\ At(p).ent.kind = "session" /\ At(p).m = "POST" /\ FirstFor(p)
    /\ At(q).ent.kind = "subSession" /\ At(q).m = "POST" /\ q[2] > 1

\* C4: when a create request was answered with a conflict and the lookup that
\* followed it succeeded (the conflicting entity exists, so it is found), the
\* next request is an update request for the same entity.
C4_UpdateAfterMatch ==
  \A p \in Requests :
    (/\ p[2] > 1
     /\ At(p).m = "GET" /\ At(p).st = "ok"
     /\ At(<<p[1], p[2] - 1>>).m = "POST"
     /\ At(<<p[1], p[2] - 1>>).st \in {"409", "409other"}
     /\ At(<<p[1], p[2] - 1>>).ent = At(p).ent)
    => IF p[2] < Len(log[p[1]])
       THEN /\ At(<<p[1], p[2] + 1>>).m = "PUT"
            /\ At(<<p[1], p[2] + 1>>).ent = At(p).ent
            /\ At(<<p[1], p[2] + 1>>).id \in TargetIds
       ELSE task[p[1]].pc \in {"session_update", "sub_update"}

\* C5: when the lookup or the update that follows a conflict fails, the upsert
\* of a room or session fails: the caller does not go on to the entity's children
\* as if an entity had been returned.
C5_ConflictUnresolvedFails ==
  \A p \in Requests :
    (/\ p[2] = Len(log[p[1]])
     /\ At(p).m \in {"GET", "PUT"} /\ At(p).st = "err"
     /\ \E q \in Requests : /\ q[1] = p[1] /\ q[2] < p[2]
                            /\ At(q).ent = At(p).ent
                            /\ At(q).m = "POST" /\ At(q).st = "409")
    => /\ At(p).ent.kind = "room" => task[p[1]].pc # "sessions"
       /\ At(p).ent.kind = "session" => task[p[1]].pc # "subs"

\* C6: every create request for a child carries a parent identifier that the
\* target system handed out.
C6_ParentFromTarget ==
  \A p \in Requests :
    (At(p).m = "POST" /\ At(p).ent.kind \in {"session", "subSession"})
      => At(p).parent \in TargetIds

\* C7: once createOrUpdateRoom is over for a room whose create request met a
\* conflict, the room task holds the identifier of the target room of that name.
C7_ExistingRoomId ==
  \A p \in Requests :
    (/\ At(p).ent.kind = "room" /\ At(p).m = "POST"
     /\ At(p).st \in {"409", "409other"}
     /\ task[p[1]].pc \notin {"room_lookup", "room_lookup_outer"})
    => \E x \in tRooms : x.name = At(p).key /\ x.id = task[p[1]].roomId

\* C8: (no request failed) the entity an update request addresses lies under
\* the parent of the entity being synchronized: the session's room, the
\* sub-session's session.
C8_SameParentScope ==
  faults = 0 =>
    \A p \in Requests :
      At(p).m = "PUT" =>
        IF At(p).ent.kind = "session"
        THEN \E x \in tSessions : x.id = At(p).id /\ x.roomId = At(p).parent
        ELSE \E x \in tSubSessions : x.id = At(p).id /\ x.sessionId = At(p).parent

\* C9: the body of every update request holds only fields the target schema
\* lists as updatable for the entity type.
C9_OnlyUpdatableFields ==
  \A p \in Requests :
    At(p).m = "PUT" => At(p).body \subseteq UpdatableFields(At(p).ent.kind)

\* C10: the body of every sub-session update request, built by updateSubSession
\* from a transformLegacySubSession payload, has exactly the keys name,
\* description, startsAt, endsAt and order (so neither eventId nor sessionId).
C10_SubSessionUpdateBody ==
  \A p \in Requests :
    (At(p).m = "PUT" /\ At(p).ent.kind = "subSession")
      => At(p).body = {"name", "description", "startsAt", "endsAt", "order"}

C10_Witness ==
  \E p \in Requests :
    /\ At(p).m = "PUT" /\ At(p).ent.kind = "subSession" /\ At(p).st = "ok"
    /\ At(p).key = "B2"

\* The place of an entity in the traversal of its room: the room, then session i
\* with its sub-sessions (i, j), then the users, then the files.
EntRank(ent) ==
  CASE ent.kind = "room" -> 0
    [] ent.kind = "session" -> 10 * ent.i
    [] ent.kind = "subSession" -> 10 * ent.i + ent.j
    [] ent.kind = "user" -> 1000 + ent.i
    [] OTHER -> 2000 + ent.i

ErrRank(e) ==
  CASE e.context = "Room processing" -> 0
    [] e.context = "Session processing" -> 10 * e.i
    [] e.context = "User processing" -> 1000 + e.i
    [] OTHER -> 2000 + e.i

\* The sessions of room r that come before rank k in the traversal.
SessionsBefore(r, k) == {i \in DOMAIN src[r].sessions : 10 * i < k}

\* The ranks of everything a room task has sent or recorded as failed so far.
RanksSoFar(r) ==
  {EntRank(log[r][k].ent) : k \in DOMAIN log[r]}
    \cup {ErrRank(task[r].res.errors[k]) : k \in DOMAIN task[r].res.errors}

RoomUpsertFailed(r) ==
  ~\E x \in tRooms : x.id = task[r].roomId

\* No create or update request for session i of room r was accepted.
SessionUpsertFailed(r, i) ==
  ~\E k \in DOMAIN log[r] :
      /\ log[r][k].ent = Ent("session", i, 0)
      /\ log[r][k].m \in {"POST", "PUT"}
      /\ log[r][k].st = "ok"

\* C12: once a room task is over, a room whose upsert failed has sent nothing
\* for its sessions, sub-sessions, users and files and its result holds exactly
\* one error entry; otherwise a session whose upsert failed has sent nothing for
\* its sub-sessions and the result holds exactly one error entry for it.
C12_FailedParentSkipsSubtree ==
  \A r \in RoomIdx :
    task[r].pc = "done" =>
      IF RoomUpsertFailed(r)
      THEN /\ \A k \in DOMAIN log[r] : log[r][k].ent.kind = "room"
           /\ Len(task[r].res.errors) = 1
      ELSE \A i \in DOMAIN src[r].sessions :
             SessionUpsertFailed(r, i) =>
               /\ \A k \in DOMAIN log[r] :
                    ~(log[r][k].ent.kind = "subSession" /\ log[r][k].ent.i = i)
               /\ Cardinality({k \in DOMAIN task[r].res.errors :
                                 task[r].res.errors[k] = Err("Session processing", i)}) = 1

\* How many entries of a room result's error list carry the given context.
ErrCount(r, context) ==
  Cardinality({k \in DOMAIN task[r].res.errors :
                 task[r].res.errors[k].context = context})

HasErr(r, context, i) ==
  \E k \in DOMAIN task[r].res.errors : task[r].res.errors[k] = Err(context, i)

HasRequest(r, kind, i) ==
  \E k \in DOMAIN log[r] : log[r][k].ent.kind = kind /\ log[r][k].ent.i = i

\* The files of room r that carry a file id.
FilesWithId(r) ==
  {f \in DOMAIN src[r].files :
     Truthy(FirstOf(src[r].files[f], <<"WalkInFileId", "FileId">>,
                    Get(src[r].files[f], "id")))}

FailedSubSessions(r) ==
  {e \in {log[r][k].ent : k \in DOMAIN log[r]} :
     /\ e.kind = "subSession"
     /\ \E k \in DOMAIN log[r] :
          /\ log[r][k].ent = e
          /\ log[r][k].st # "ok"
          /\ \A k2 \in DOMAIN log[r] : log[r][k2].ent = e => k2 <= k}

\* The failures of the rooms 1..n of the run: the error entries of the room
\* results and the failed sub-sessions.
RECURSIVE FailureCount(_)
FailureCount(n) ==
  IF n = 0 THEN 0
  ELSE FailureCount(n - 1) + Len(task[n].res.errors) + Cardinality(FailedSubSessions(n))

\* C14: when executeMigration has returned, the errors list of its
\* MigrationResult holds an entry for every failed entity of the run: at least
\* as many entries as the room results hold error entries plus the sub-sessions
\* whose upsert failed.
C14_EveryFailureReported ==
  phase = "done" => Len(result.errors) >= FailureCount(Len(src))

\* C15: when executeMigration has returned, success is true exactly when no
\* entity operation of the run failed and the target event was found with an
\* event location.
C15_SuccessIffNoFailure ==
  phase = "done" =>
    (result.success <=> (FailureCount(Len(src)) = 0 /\ eventCheck(tEvent) = "ok"))

\* C16: after one run (not a dry run) without a failed request over the room
\* with 2 sessions of 3 sub-sessions each against a target event with one event
\* location, in either mode, the target holds 1 room, 2 sessions with
\* the source identifiers and 6 sub-sessions numbered 1..3 within each session,
\* and the report has roomsProcessed = 1, sessionsCreated = 2 and no errors.
C16_TwoByThreeScenario ==
  (/\ src = DataTwoByThree /\ run = 1 /\ phase = "done" /\ faults = 0
   /\ eventCheck(tEvent) = "ok" /\ ~config.dryRun) =>
    /\ Cardinality(tRooms) = 1
    /\ {x.sourceSystemId : x \in tSessions} = {"S1", "S2"}
    /\ Cardinality(tSessions) = 2
    /\ Cardinality(tSubSessions) = 6
    /\ \A s \in tSessions :
         /\ Cardinality({b \in tSubSessions : b.sessionId = s.id}) = 3
         /\ {b.order : b \in {b \in tSubSessions : b.sessionId = s.id}} = {1, 2, 3}
    /\ result.roomsProcessed = 1
    /\ result.sessionsCreated = 2
    /\ result.errors = <<>>

Settled(i) == pp.st[i] \in {"returned", "threw"}

\* C17: during processRooms the number of rooms whose processing function has
\* started and not finished never exceeds the concurrency (and the activeTasks
\* and maxActiveTasks statistics agree with it); with concurrency 1 a room has
\* only started when every room before it in the list has finished.
C17_ConcurrencyBound ==
  pp.method = "processRooms" =>
    /\ RunningCount(pp.st) <= pp.concurrency
    /\ pp.statistics.activeTasks = RunningCount(pp.st)
    /\ pp.statistics.maxActiveTasks <= pp.concurrency
    /\ pp.concurrency = 1 =>
         \A i, j \in Items : (i < j /\ pp.st[j] # "queued") => Settled(i)

\* The limit is reached while a room waits and another has finished.
C17_Witness ==
  /\ pp.method = "processRooms"
  /\ pp.status = "running"
  /\ RunningCount(pp.st) = pp.concurrency
  /\ Queued(pp.st) # {}
  /\ \E i \in Items : Settled(i)

\* C18: rooms start in input order (the k-th room to start is the k-th room of
\* the list, so no room starts before an earlier one), and no room waits while
\* fewer rooms run than the concurrency allows: when a running room finishes
\* the first waiting room is started in its place.
C18_FifoAdmission ==
  pp.method = "processRooms" =>
    /\ \A k \in DOMAIN pp.started : pp.started[k] = k
    /\ \A i, j \in Items : (j < i /\ pp.st[i] # "queued") => pp.st[j] # "queued"
    /\ Queued(pp.st) # {} => RunningCount(pp.st) = pp.concurrency

\* A room has finished and the room that waited has been started while the
\* last one still waits.
C18_Witness ==
  /\ pp.method = "processRooms"
  /\ pp.concurrency = 1
  /\ pp.n = 3
  /\ Settled(1)
  /\ pp.st[2] = "running"
  /\ pp.st[3] = "queued"
  /\ pp.started = <<1, 2>>

\* C19: processRooms never rejects; once it has resolved, every room was run
\* (returned or threw), and the results hold one outcome per input room in
\* input order, success = true with the result for a room that returned and
\* success = false with the error for a room whose processing function threw.
C19_ThrowDoesNotAbort ==
  pp.method = "processRooms" =>
    /\ pp.status # "rejected"
    /\ pp.status = "resolved" =>
         /\ Len(pp.results) = pp.n
         /\ \A i \in Items :
              /\ Settled(i)
              /\ pp.results[i].index = i - 1
              /\ pp.results[i].success = (pp.st[i] = "returned")
              /\ pp.st[i] = "threw" => "error" \in DOMAIN pp.results[i]
              /\ pp.st[i] = "returned" => pp.results[i].result = Num(2 * i)
         /\ pp.statistics.completedTasks + pp.statistics.failedTasks = pp.n
         /\ pp.statistics.failedTasks
              = Cardinality({i \in Items : pp.st[i] = "threw"})

\* processRooms has resolved for three rooms of which the first threw and a
\* later one returned.
C19_Witness ==
  /\ pp.method = "processRooms"
  /\ pp.status = "resolved"
  /\ pp.n = 3
  /\ pp.st[1] = "threw"
  /\ pp.st[3] = "returned"
  /\ pp.results[1].success = FALSE
  /\ pp.results[3].success = TRUE

\* C20: a call over a list of items for one of which the processing function
\* threw ends rejected.
C20_ProcessRejects ==
  (/\ pp.method = "processItems"
   /\ pp.status \notin {"idle", "running", "settled"}
   /\ \E i \in Items : pp.st[i] = "threw")
    => pp.status = "rejected"

\* C21: once a call in which no processing function threw has resolved, the
\* returned list has one entry per input item and entry k is what the
\* processing function returned for item k (the number 2 * k here).
C21_ResultsAreFunctionResults ==
  (pp.status = "resolved" /\ \A i \in Items : pp.st[i] = "returned") =>
    /\ Len(pp.results) = pp.n
    /\ \A k \in Items : pp.results[k] = Num(2 * k)

\* C22: in dry-run mode, in single-room and in all-rooms mode, no room task
\* sends a create or update request (nothing is uploaded either: no request at
\* all is logged) and the target holds no room, session or sub-session.
C22_DryRunSendsNothing ==
  config.dryRun =>
    /\ \A p \in Requests : At(p).m \notin {"POST", "PUT"}
    /\ \A r \in RoomIdx : ~Active(r)
    /\ TargetCount = 0

\* A dry run over rooms with sessions has returned its result, the target
\* event and its location being there.
C22_Witness ==
  /\ config.dryRun
  /\ eventCheck(tEvent) = "ok"
  /\ phase = "done"
  /\ result.roomsProcessed = Len(src)
  /\ Len(src) = 2
  /\ \E r \in RoomIdx : Len(src[r].sessions) > 0

\* The entries Err(context, i) for the failed indices among 1..n, in order.
ErrorsFor(context, n, failed) ==
  SelectSeq([i \in 1..n |-> Err(context, i)], LAMBDA e : e.i \in failed)

\* What processRoom returns for room r in a run in which every request is
\* accepted: only transformation and validation decide the outcome.
RealRoomResult(r) ==
  LET tr == BeginRoom(r)
      roomId == Str(NewRoomId(tr.cur.name.s))
      SessionFails(i) ==
        ~transformLegacySession(src[r].sessions[i], roomId, TargetEventId, now).ok
      UserFails(u) ==
        \/ ~transformLegacyUser(src[r].users[u], TargetEventId).ok
        \/ /\ Truthy(Get(src[r].users[u], "isModerator"))
           /\ ~transformLegacyModerator(src[r].users[u], Str("uuid-user"), roomId,
                                        TargetEventId).ok
      UserCreated(u) == transformLegacyUser(src[r].users[u], TargetEventId).ok
      FileFails(f) ==
        /\ f \in FilesWithId(r)
        /\ ~transformLegacyFile(src[r].files[f], roomId, TargetEventId).ok
      sessionErrors == ErrorsFor("Session processing", Len(src[r].sessions),
                                 {i \in DOMAIN src[r].sessions : SessionFails(i)})
      userErrors == ErrorsFor("User processing", Len(src[r].users),
                              {u \in DOMAIN src[r].users : UserFails(u)})
      fileErrors == ErrorsFor("File processing", Len(src[r].files),
                              {f \in DOMAIN src[r].files : FileFails(f)})
  IN  IF tr.pc = "done" THEN tr.res
      ELSE [NewRoomResult EXCEPT
              !.sessionsCreated = Len(src[r].sessions) - Len(sessionErrors),
              !.usersProcessed = Cardinality({u \in DOMAIN src[r].users : UserCreated(u)}),
              !.filesUploaded = Cardinality(FilesWithId(r)) - Len(fileErrors),
              !.errors = sessionErrors \o userErrors \o fileErrors]

\* The MigrationResult of such a run in the configured mode.
RealRunReport ==
  LET res == IF config.migrateAllRooms
             THEN aggregateRoomResults(
                    [r \in RoomIdx |-> [success |-> TRUE, room |-> r,
                                        result |-> RealRoomResult(r), index |-> r - 1]],
                    NewMigrationResult)
             ELSE singleRoomResult(RealRoomResult(1), NewMigrationResult)
  IN  [res EXCEPT !.success = (Len(res.errors) = 0), !.endTime = Num(now)]

\* C23: the report of a dry run (target event and location present) has the
\* counts and the validation errors of a real run in which every request is
\* accepted.
C23_DryRunReportEqualsRealRun ==
  (phase = "done" /\ config.dryRun /\ eventCheck(tEvent) = "ok")
    => result = RealRunReport

\* C24: when the target event does not exist or has no event location, no room
\* task is ever started and no request is sent, the target stays as it was, and
\* once the run has returned its result has success = false with the error
\* recorded and the process exits with code 1.
C24_NoEventAbortsRun ==
  (~tEvent.found \/ Len(tEvent.eventLocations) = 0) =>
    /\ Requests = {}
    /\ \A r \in RoomIdx : ~Active(r) /\ task[r].res = NewRoomResult
    /\ TargetCount = 0
    /\ phase = "done" =>
         /\ ~result.success
         /\ Len(result.errors) > 0
         /\ result.roomsProcessed = 0
         /\ exit = 1

\* A real run in all-rooms mode against an event without event location has
\* been aborted.
C24_Witness ==
  /\ tEvent.found
  /\ Len(tEvent.eventLocations) = 0
  /\ ~config.dryRun
  /\ config.migrateAllRooms
  /\ phase = "done"
  /\ run = 1
  /\ exit = 1

\* C25: the process exits with code 0 only when executeMigration has returned a
\* MigrationResult with success = true.
C25_ExitZeroOnlyOnSuccess ==
  exit = 0 => (phase = "done" /\ result.success)

\* The sum of a counter of the room results of the rooms 1..n.
RECURSIVE SessionsCreatedSum(_)
SessionsCreatedSum(n) ==
  IF n = 0 THEN 0 ELSE SessionsCreatedSum(n - 1) + task[n].res.sessionsCreated

\* C26: after a cancellation signal has ended the run, no room was cut off in
\* the middle of a target request, no room is left waiting as if it could still
\* be admitted, and the MigrationResult covers what was completed: its
\* sessionsCreated is the number of sessions the room tasks completed.
C26_SignalDrainsAndReports ==
  phase = "killed" =>
    /\ \A r \in RoomIdx : task[r].pc \notin RequestPcs
    /\ result.sessionsCreated = SessionsCreatedSum(Len(src))

\* The configured maximum number of retries (MAX_RETRIES unset).
DEFAULT_MAX_RETRIES == 3

\* The error entry of the room result that records the failure of an entity.
ErrOf(ent) ==
  CASE ent.kind = "room" -> Err("Room processing", 0)
    [] ent.kind = "session" -> Err("Session processing", ent.i)
    [] ent.kind = "user" -> Err("User processing", ent.i)
    [] OTHER -> Err("File processing", ent.i)

\* C27: when an entity is recorded as failed and a request for it failed with
\* a transient failure, that request was sent 1 + the maximum number of retries
\* times, each time failing.
C27_TransientFailureRetried ==
  \A p \in Requests :
    (/\ At(p).st = "err"
     /\ \E k \in DOMAIN task[p[1]].res.errors :
          task[p[1]].res.errors[k] = ErrOf(At(p).ent))
    => Cardinality({q \in Requests :
                      /\ q[1] = p[1]
                      /\ At(q).ent = At(p).ent
                      /\ At(q).m = At(p).m
                      /\ At(q).st = "err"}) >= 1 + DEFAULT_MAX_RETRIES


\* C28: a create request for a room or a session that failed for a reason
\* other than a 409 conflict (a 4xx such as 400 among them) is the only request
\* ever sent for that entity, and the entity's failure is in the room result's
\* error list.
C28_RejectedCreateIsTerminal ==
  \A p \in Requests :
    (/\ At(p).m = "POST"
     /\ At(p).ent.kind \in {"room", "session"}
     /\ At(p).st \in {"err", "400"})
    => /\ \A q \in Requests : (q[1] = p[1] /\ At(q).ent = At(p).ent) => q = p
       /\ \E k \in DOMAIN task[p[1]].res.errors :
            task[p[1]].res.errors[k] = ErrOf(At(p).ent)


\* The positions of processRoom inside createOrUpdateSubSession: the payload of
\* the current sub-session is being sent.
SubSessionPcs == {"sub_check", "sub_update_first", "sub_post", "sub_lookup", "sub_update"}

\* C29: the payload sent for the k-th sub-session of a session's source list
\* carries order = k.
C29_OrderIsListPosition ==
  \A r \in RoomIdx :
    task[r].pc \in SubSessionPcs => task[r].cur.order = Num(task[r].bi)


\* The positions of processRoom inside createOrUpdateSession: the payload of the
\* current session is being sent.
SessionPcs == {"session_post", "session_lookup", "session_update"}

\* C30: while the payload that a transform function returned for a session or
\* a sub-session is being sent, a second invocation on the same source record
\* and the same parent identifiers returns that same payload.
C30_TransformIsDeterministic ==
  \A r \in RoomIdx :
    LET t == task[r] IN
    /\ t.pc \in SessionPcs =>
         LET again == transformLegacySession(src[r].sessions[t.si], Str(t.roomId),
                                             TargetEventId, now)
         IN  again.ok /\ again.data = t.cur
    /\ t.pc \in SubSessionPcs =>
         LET again == transformLegacySubSession(
                        SubSessionsOf(src[r].sessions[t.si])[t.bi], Str(t.sessionId),
                        TargetEventId, now)
         IN  again.ok /\ again.data = t.cur


\* C31: a file whose source record has no file identifier is never downloaded
\* or uploaded, is not counted in filesUploaded and adds no error entry; once
\* the room's task is over, every file that has an identifier has been
\* downloaded, those after the skipped file among them.
C31_FileWithoutIdIsSkipped ==
  \A r \in RoomIdx :
    LET t == task[r] IN
    /\ \A f \in DOMAIN src[r].files \ FilesWithId(r) :
         /\ f \notin t.downloaded
         /\ f \notin t.uploaded
         /\ ~HasErr(r, "File processing", f)
    /\ t.res.filesUploaded = Cardinality(t.uploaded)
    /\ (t.pc = "done" /\ t.fi > 1) => t.downloaded = FilesWithId(r)

\* The file loop of a room went past a file without identifier and came to its
\* end, with a file downloaded after the skipped one.
C31_Witness ==
  \E r \in RoomIdx :
    /\ task[r].pc = "done"
    /\ \E f \in DOMAIN src[r].files \ FilesWithId(r) :
         \E g \in task[r].downloaded : g > f


\* C32: a finalized MigrationResult to which no error was added and in which
\* no room was marked failed has success = true, and a finalized one with an
\* error has success = false.
C32_FinalizeSetsSuccess ==
  mr.endTime # Null => (mr.success = Bool(Len(mr.errors) = 0))


\* C33 as stated: validateConfig throws exactly for an empty or blank
\* legacyEventName or a non-positive targetEventId, and else returns the same
\* legacyEventName, targetEventId, dryRun and maxConcurrentRooms, with
\* migrateAllRooms true exactly when roomName is absent or blank.
C33_ThrowsOnlyForRequiredFields ==
  vc.status # "idle" =>
    /\ vc.status = "thrown" <=>
         \/ vc.config.legacyEventName.t # "str"
         \/ vc.config.legacyEventName.s \in {"", " ", "  "}
         \/ vc.config.targetEventId.t # "num"
         \/ vc.config.targetEventId.n <= 0
    /\ vc.status = "returned" =>
         /\ vc.value.legacyEventName = vc.config.legacyEventName
         /\ vc.value.targetEventId = vc.config.targetEventId
         /\ vc.value.dryRun = vc.config.dryRun
         /\ vc.value.maxConcurrentRooms = vc.config.maxConcurrentRooms
         /\ vc.value.migrateAllRooms =
              Bool(vc.config.roomName.t # "str" \/ vc.config.roomName.s \in {"", " ", "  "})

\* C33, amended: validateConfig throws exactly when a required field is invalid,
\* or maxConcurrentRooms is non-zero and below 1, or timeout is non-zero and
\* below 1000; else it returns the legacyEventName without surrounding blanks,
\* the same targetEventId and dryRun, maxConcurrentRooms as given (null for 0 or
\* none), and migrateAllRooms true exactly when roomName is absent or blank.
C33_ValidateConfig ==
  vc.status # "idle" =>
    LET c == vc.config
        requiredInvalid ==
          \/ c.legacyEventName.t # "str"
          \/ c.legacyEventName.s \in {"", " ", "  "}
          \/ c.targetEventId.t # "num"
          \/ c.targetEventId.n <= 0
        optionalInvalid ==
          \/ c.maxConcurrentRooms.t = "num" /\ c.maxConcurrentRooms.n # 0
               /\ c.maxConcurrentRooms.n < 1
          \/ c.timeout.t = "num" /\ c.timeout.n # 0 /\ c.timeout.n < 1000
    IN
    /\ vc.status = "thrown" <=> (requiredInvalid \/ optionalInvalid)
    /\ vc.status = "returned" =>
         /\ vc.value.legacyEventName.s \in {"EVT"}
         /\ vc.value.legacyEventName.t = "str"
         /\ vc.value.targetEventId = c.targetEventId
         /\ vc.value.dryRun = c.dryRun
         /\ vc.value.maxConcurrentRooms =
              (IF c.maxConcurrentRooms = Num(0) THEN Null ELSE c.maxConcurrentRooms)
         /\ vc.value.migrateAllRooms =
              Bool(c.roomName.t # "str" \/ c.roomName.s \in {"", " ", "  "})

\* validateConfig has thrown for a configuration whose required fields are
\* valid and whose maxConcurrentRooms is negative.
C33_Witness ==
  /\ vc.status = "thrown"
  /\ vc.config.legacyEventName = Str("EVT")
  /\ vc.config.targetEventId = Num(123)
  /\ vc.config.maxConcurrentRooms = Num(-1)
  /\ vc.config.timeout = Null


\* C34: at every moment the number of room tasks that have a target request
\* under way is at most the configured maximum of concurrent rooms.
C34_RequestsInFlightBounded ==
  Cardinality({r \in RoomIdx : task[r].pc \in RequestPcs}) <=
    (IF config.maxConcurrent > 0 THEN config.maxConcurrent ELSE config.maxConcurrentRooms)


\* C40: in a run started with --max-concurrent n, never more than n rooms are
\* being processed at a time.
C40_MaxConcurrentOptionEnforced ==
  config.maxConcurrent > 0 => activeTasks <= config.maxConcurrent


C36_RetryBoundedAndTerminates ==
  /\ [](/\ Len(rt.outcomes) <= rt.maxRetries + 1
        /\ rt.status = "returned" =>
             /\ rt.outcomes # <<>>
             /\ rt.outcomes[Len(rt.outcomes)]
             /\ \A k \in 1..(Len(rt.outcomes) - 1) : ~rt.outcomes[k]
             /\ rt.value = Num(Len(rt.outcomes))
        /\ (rt.status = "threw" /\ rt.outcomes # <<>>) =>
             /\ \A k \in 1..Len(rt.outcomes) : ~rt.outcomes[k]
             /\ rt.lastError = Num(Len(rt.outcomes)))
  /\ [][rt.status \in {"returned", "threw"} => rt' = rt]_vars
  /\ (rt.status \in {"calling", "sleeping"}) ~> (rt.status \in {"returned", "threw"})

C36_Witness ==
  /\ rt.status = "returned"
  /\ rt.maxRetries = MaxRetryArg
  /\ rt.outcomes = <<FALSE, FALSE, TRUE>>
  /\ rt.slept = <<1000, 2000>>


C38_SingleRoomEqualsAllRooms ==
  (phase = "done" /\ Len(src) = 1 /\ task[1].pc = "done") =>
    LET other == IF config.migrateAllRooms
                 THEN singleRoomResult(task[1].res, NewMigrationResult)
                 ELSE aggregateRoomResults(<<TaskWrapper(1)>>, NewMigrationResult)
    IN  result = [other EXCEPT !.success = (Len(other.errors) = 0),
                               !.endTime = result.endTime]

\* C39: in the report of an all-rooms run roomsProcessed is the number of rooms
\* whose upsert succeeded, rooms whose processing failed not being counted.
C39_RoomsProcessedCountsUpsertedRooms ==
  (/\ phase = "done"
   /\ config.migrateAllRooms
   /\ \A r \in RoomIdx : task[r].pc = "done") =>
    result.roomsProcessed = Cardinality({r \in RoomIdx : task[r].res.success})

=============================================================================
